---------------------------- MODULE Spec2Model ----------------------------
(***************************************************************************)
(* Bullet-journal PDF generator: the calendar model, the page map (the     *)
(* assignment of page indices to cover, indexes, guide, future log,        *)
(* monthly, weekly, daily and collection pages) and the link ledger        *)
(* (LinkManager: deferred go-to links recorded while the pages are drawn   *)
(* and inserted into the document at the end).                             *)
(***************************************************************************)
EXTENDS Integers, Sequences, FiniteSets, TLC

VARIABLES
    pc,          \* position in generate(): "start", "calendar", "mapped"
    settings,    \* the Settings value handed to the generator
    calendar,    \* CalendarModel.for_year(settings.year)
    page_map,    \* build_page_map(settings, calendar)
    page_counts, \* build_page_counts(settings, calendar)
    doc_pages,   \* len(doc): the number of pages of the fitz document
    doc_links,   \* the link annotations of the document, in insertion order
    links,       \* LinkManager._links, the ledger
    last,        \* the last LinkManager call: its arguments and its outcome
    reports,     \* every link an apply call has returned as invalid, in order
    apply_log,   \* per apply call so far, the length the ledger had
    report,      \* the ValidationReport built last
    query,       \* the last method call on a report or a calendar, its result
    font_files,  \* the configured font files that exist under asset_root
    drawn,       \* the page indices handed to page templates, in call order
    font_manager, \* FontManager: _resolved, _regular, _italic, _missing
    page_fonts   \* the fonts inserted into pages: <<page, font name>> pairs

vars == <<pc, settings, calendar, page_map, page_counts,
          doc_pages, doc_links, links, last, reports, apply_log,
          report, query, font_files, drawn, font_manager, page_fonts>>

pmVars == <<pc, settings, calendar, page_map, page_counts>>
lmVars == <<doc_pages, doc_links, links, last, reports, apply_log>>
vrVars == <<report, query, font_files, drawn, font_manager, page_fonts>>

---------------------------------------------------------------------------
(* Bounds of the model *)

\* strides (pages_per_day, pages_per_collection) range over -1..MaxStride
MaxStride == 2
\* section counts range over -1..MaxCount, plus the default of the field
MaxCount == 0
\* years range over DefaultYear-YearSpan..DefaultYear
YearSpan == 2
\* the ledger holds at most MaxLinks links
MaxLinks == 2
\* the document has 0..MaxPages pages; page indices range over -1..MaxPages
MaxPages == 1
\* at most MaxCalls calls of add and apply together
MaxCalls == 4

---------------------------------------------------------------------------
(* Settings: src/bujo/config/settings.py *)

DefaultYear == 2026
DefaultPagesPerDay == 2
DefaultPagesPerCollection == 1
DefaultGuidePages == 6
DefaultFutureLogPages == 4
DefaultCollectionsPerIndex == 18
DefaultCollectionIndexes == 2

\* Settings(): every field at its default
DefaultSettings ==
    [year |-> DefaultYear,
     pages_per_day |-> DefaultPagesPerDay,
     pages_per_collection |-> DefaultPagesPerCollection,
     num_guide_pages |-> DefaultGuidePages,
     num_future_log_pages |-> DefaultFutureLogPages,
     num_collections_per_index |-> DefaultCollectionsPerIndex,
     num_collection_indexes |-> DefaultCollectionIndexes]

Years == (DefaultYear - YearSpan)..DefaultYear
Strides(default) == (-1..MaxStride) \cup {default}
Counts(default) == (-1..MaxCount) \cup {default}

\* The dataclass validates nothing: any integer is accepted for any field.
SettingsValues ==
    [year : Years,
     pages_per_day : Strides(DefaultPagesPerDay),
     pages_per_collection : Strides(DefaultPagesPerCollection),
     num_guide_pages : Counts(DefaultGuidePages),
     num_future_log_pages : Counts(DefaultFutureLogPages),
     num_collections_per_index : Counts(DefaultCollectionsPerIndex),
     num_collection_indexes : Counts(DefaultCollectionIndexes)]

---------------------------------------------------------------------------
(* Calendar model: src/rppm/calendar_model.py, src/bujo/calendar_model.py *)

\* the leap years of the Julian calendar: every fourth year
IsLeapJulian(y) == y % 4 = 0

\* calendar.isleap
IsLeap(y) == (y % 4 = 0) /\ ((y % 100 # 0) \/ (y % 400 = 0))

\* calendar.monthrange(year, month)[1], month in 1..12
DaysInMonth(y, m) ==
    IF m = 2 THEN (IF IsLeap(y) THEN 29 ELSE 28)
    ELSE IF m \in {4, 6, 9, 11} THEN 30 ELSE 31

\* day_cursor before the loop reaches `month` (1..13): the days of the
\* months before it
RECURSIVE DayCursor(_, _)
DayCursor(y, month) ==
    IF month = 1 THEN 0 ELSE DayCursor(y, month - 1) + DaysInMonth(y, month - 1)

\* date(y, m, d).toordinal(): days since 0001-01-01, that day being 1
Ordinal(y, m, d) ==
    LET p == y - 1
    IN  p * 365 + (p \div 4) - (p \div 100) + (p \div 400) + DayCursor(y, m) + d

\* datetime's _isoweek1monday: the ordinal of the Monday of ISO week 1
IsoWeek1Monday(y) ==
    LET firstday == Ordinal(y, 1, 1)
        firstweekday == (firstday + 6) % 7
        week1monday == firstday - firstweekday
    IN  IF firstweekday > 3 THEN week1monday + 7 ELSE week1monday

\* date(y, m, d).isocalendar().week
IsoWeek(y, m, d) ==
    LET today == Ordinal(y, m, d)
        week == (today - IsoWeek1Monday(y)) \div 7
    IN  IF week < 0
          THEN ((today - IsoWeek1Monday(y - 1)) \div 7) + 1
          ELSE IF week >= 52 /\ today >= IsoWeek1Monday(y + 1)
                 THEN 1
                 ELSE week + 1

\* a MonthInfo whose offset counts 30 days for every earlier month
MonthInfoThirtyDayOffsets(y, month) ==
    [index |-> month - 1,
     days |-> DaysInMonth(y, month),
     start_day_of_year |-> 30 * (month - 1)]

\* one MonthInfo (name and abbrev are display strings, not modelled)
MonthInfo(y, month) ==
    [index |-> month - 1,
     days |-> DaysInMonth(y, month),
     start_day_of_year |-> DayCursor(y, month)]

\* for_year taking the week number of December 31
for_year_week_of_dec_31(y) ==
    [year |-> y,
     months |-> [i \in 1..12 |-> MonthInfo(y, i)],
     total_days |-> DayCursor(y, 13),
     weeks_in_year |-> IsoWeek(y, 12, 31)]

\* CalendarModel.for_year
for_year(y) ==
    [year |-> y,
     months |-> [i \in 1..12 |-> MonthInfo(y, i)],
     total_days |-> DayCursor(y, 13),
     weeks_in_year |-> IsoWeek(y, 12, 28)]

\* before for_year has run there is no calendar: a placeholder
NoCalendar == [year |-> 0, months |-> <<>>, total_days |-> 0, weeks_in_year |-> 0]

\* datetime.date(year, month, day)
Date(year, month, day) == [year |-> year, month |-> month, day |-> day]

\* d.toordinal()
ToOrdinal(d) == Ordinal(d.year, d.month, d.day)

\* date.fromordinal(n), datetime's _ord2ymd: the 400-, 100-, 4- and 1-year
\* cycles, then the month estimated as (n + 50) >> 5 and corrected
FromOrdinal(n) ==
    LET n0 == n - 1
        n400 == n0 \div 146097
        r400 == n0 % 146097
        n100 == r400 \div 36524
        r100 == r400 % 36524
        n4 == r100 \div 1461
        r4 == r100 % 1461
        n1 == r4 \div 365
        r1 == r4 % 365
        year == n400 * 400 + 1 + n100 * 100 + n4 * 4 + n1
        month == (r1 + 50) \div 32
        preceding == DayCursor(year, month)
    IN  IF n1 = 4 \/ n100 = 4
          THEN Date(year - 1, 12, 31)
          ELSE IF preceding > r1
                 THEN Date(year, month - 1, r1 - DayCursor(year, month - 1) + 1)
                 ELSE Date(year, month, r1 - preceding + 1)

\* d + timedelta(days=k)
PlusDays(d, k) == FromOrdinal(ToOrdinal(d) + k)

\* d.weekday(): Monday is 0, Sunday is 6
Weekday(d) == (ToOrdinal(d) + 6) % 7

\* d.isocalendar().year
IsoYear(y, m, d) ==
    LET today == Ordinal(y, m, d)
        week == (today - IsoWeek1Monday(y)) \div 7
    IN  IF week < 0
          THEN y - 1
          ELSE IF week >= 52 /\ today >= IsoWeek1Monday(y + 1)
                 THEN y + 1
                 ELSE y

---------------------------------------------------------------------------
(* Page map: src/rppm/page_map.py *)

\* the PageMap dataclass: the fixed pages, the section starts, the total and
\* the four settings it copies
PageMap(cover, main_index, year_index, collection_index_c, collection_index_d, guide_start, future_log_start, monthly_start, weekly_start, daily_start, collection_start, total_pages, s) ==
    [cover |-> cover,
     main_index |-> main_index,
     year_index |-> year_index,
     collection_index_c |-> collection_index_c,
     collection_index_d |-> collection_index_d,
     guide_start |-> guide_start,
     future_log_start |-> future_log_start,
     monthly_start |-> monthly_start,
     weekly_start |-> weekly_start,
     daily_start |-> daily_start,
     collection_start |-> collection_start,
     total_pages |-> total_pages,
     pages_per_day |-> s.pages_per_day,
     pages_per_collection |-> s.pages_per_collection,
     num_collection_indexes |-> s.num_collection_indexes,
     num_collections_per_index |-> s.num_collections_per_index]

\* build_page_map reserving one page per month instead of two
build_page_map_short_months(s, cal) ==
    LET guide_start == 5
        future_log_start == guide_start + s.num_guide_pages
        monthly_start == future_log_start + s.num_future_log_pages
        weekly_start == monthly_start + 12
        daily_start == weekly_start + cal.weeks_in_year * 2
        collection_start == daily_start + cal.total_days * s.pages_per_day
        total_collections == s.num_collections_per_index * s.num_collection_indexes
        total_pages == collection_start + total_collections * s.pages_per_collection
    IN  PageMap(0, 1, 2, 3, 4, guide_start, future_log_start, monthly_start,
                weekly_start, daily_start, collection_start, total_pages, s)

\* build_page_map reserving one page per collection whatever the stride
build_page_map_one_page_collections(s, cal) ==
    LET guide_start == 5
        future_log_start == guide_start + s.num_guide_pages
        monthly_start == future_log_start + s.num_future_log_pages
        weekly_start == monthly_start + 12 * 2
        daily_start == weekly_start + cal.weeks_in_year * 2
        collection_start == daily_start + cal.total_days * s.pages_per_day
        total_collections == s.num_collections_per_index * s.num_collection_indexes
        total_pages == collection_start + total_collections
    IN  PageMap(0, 1, 2, 3, 4, guide_start, future_log_start, monthly_start,
                weekly_start, daily_start, collection_start, total_pages, s)

build_page_map(s, cal) ==
    LET cover == 0
        main_index == 1
        year_index == 2
        collection_index_c == 3
        collection_index_d == 4
        guide_start == 5
        future_log_start == guide_start + s.num_guide_pages
        monthly_start == future_log_start + s.num_future_log_pages
        weekly_start == monthly_start + 12 * 2
        daily_start == weekly_start + cal.weeks_in_year * 2
        collection_start == daily_start + cal.total_days * s.pages_per_day
        total_collections == s.num_collections_per_index * s.num_collection_indexes
        total_pages == collection_start + total_collections * s.pages_per_collection
    IN  PageMap(cover, main_index, year_index, collection_index_c,
                collection_index_d, guide_start, future_log_start,
                monthly_start, weekly_start, daily_start, collection_start,
                total_pages, s)

build_page_counts(s, cal) ==
    LET total_collections == s.num_collections_per_index * s.num_collection_indexes
    IN  [guide_pages |-> s.num_guide_pages,
         future_log_pages |-> s.num_future_log_pages,
         monthly_pages |-> 12 * 2,
         weekly_pages |-> cal.weeks_in_year * 2,
         daily_pages |-> cal.total_days * s.pages_per_day,
         collection_pages |-> total_collections * s.pages_per_collection]

\* before build_page_map has run there is no page map: placeholders
NoPageMap == PageMap(0, 0, 0, 0, 0, 0, 0, 0, 0, 0, 0, 0, DefaultSettings)
NoPageCounts ==
    [guide_pages |-> 0, future_log_pages |-> 0, monthly_pages |-> 0,
     weekly_pages |-> 0, daily_pages |-> 0, collection_pages |-> 0]

\* PageMap.month_timeline
month_timeline(pm, month_idx) == pm.monthly_start + month_idx * 2

\* month_action_plan without the +1: the timeline's page
month_action_plan_no_offset(pm, month_idx) == pm.monthly_start + month_idx * 2

\* PageMap.month_action_plan
month_action_plan(pm, month_idx) == pm.monthly_start + month_idx * 2 + 1

\* PageMap.weekly_action
weekly_action(pm, week_idx) == pm.weekly_start + week_idx * 2

\* PageMap.weekly_reflection
weekly_reflection(pm, week_idx) == pm.weekly_start + week_idx * 2 + 1

\* daily_page with the default stride 2 instead of pages_per_day
daily_page_fixed_stride(pm, day_of_year, page_in_day) ==
    pm.daily_start + day_of_year * 2 + page_in_day

\* PageMap.daily_page
daily_page(pm, day_of_year, page_in_day) ==
    pm.daily_start + day_of_year * pm.pages_per_day + page_in_day

\* collection_page counting the collections from 1
collection_page_one_based(pm, collection_idx) ==
    pm.collection_start + (collection_idx + 1) * pm.pages_per_collection

\* PageMap.collection_page
collection_page(pm, collection_idx) ==
    pm.collection_start + collection_idx * pm.pages_per_collection

---------------------------------------------------------------------------
(* Calendar model, the methods: src/bujo/calendar_model.py *)

\* day_of_year counting the first day of the month as 1
day_of_year_one_based(cal, month_idx, day) ==
    cal.months[month_idx + 1].start_day_of_year + day

\* CalendarModel.day_of_year (months is 1-based here, month_idx 0-based)
day_of_year(cal, month_idx, day) ==
    cal.months[month_idx + 1].start_day_of_year + (day - 1)

\* CalendarModel.week_of_date
week_of_date(cal, month_idx, day) == IsoWeek(cal.year, month_idx + 1, day)

\* week_date_range anchored on January 1 instead of January 4
week_date_range_from_jan_1(cal, week_num) ==
    LET jan1 == Date(cal.year, 1, 1)
        week1_monday == PlusDays(jan1, -Weekday(jan1))
        start == PlusDays(week1_monday, 7 * (week_num - 1))
        end == PlusDays(start, 6)
    IN  <<start, end>>

\* CalendarModel.week_date_range: the pair (start, end)
week_date_range(cal, week_num) ==
    LET jan4 == Date(cal.year, 1, 4)
        week1_monday == PlusDays(jan4, -Weekday(jan4))
        start == PlusDays(week1_monday, 7 * (week_num - 1))
        end == PlusDays(start, 6)
    IN  <<start, end>>

\* the loop of week_primary_month from `current` to end_date: days_per_month
\* as the sequence of its items [key, value] in insertion order
RECURSIVE CountDays(_, _, _, _)
CountDays(cal, current, end_date, days_per_month) ==
    IF ToOrdinal(current) > ToOrdinal(end_date)
      THEN days_per_month
      ELSE LET month_idx == current.month - 1
               at == { i \in 1..Len(days_per_month) :
                         days_per_month[i].key = month_idx }
               counted ==
                 IF current.year # cal.year THEN days_per_month
                 ELSE IF at = {}
                   THEN Append(days_per_month, [key |-> month_idx, value |-> 1])
                   ELSE [ i \in 1..Len(days_per_month) |->
                            IF i \in at
                              THEN [key |-> month_idx,
                                    value |-> days_per_month[i].value + 1]
                              ELSE days_per_month[i] ]
           IN  CountDays(cal, PlusDays(current, 1), end_date, counted)

\* max(d, key=lambda m: d[m]): the first key, in insertion order, whose value
\* no other value exceeds
MaxKey(items) ==
    LET first == CHOOSE i \in 1..Len(items) :
                   /\ \A j \in 1..Len(items) : items[j].value <= items[i].value
                   /\ \A j \in 1..(i - 1) : items[j].value < items[i].value
    IN  items[first].key

\* week_primary_month returning the month of the week's Monday
week_primary_month_of_start(cal, week_num) ==
    week_date_range(cal, week_num)[1].month - 1

\* CalendarModel.week_primary_month
week_primary_month(cal, week_num) ==
    LET range == week_date_range(cal, week_num)
        start_date == range[1]
        end_date == range[2]
        days_per_month == CountDays(cal, start_date, end_date, <<>>)
    IN  IF Len(days_per_month) = 0
          THEN (IF start_date.year < cal.year THEN 0 ELSE 11)
          ELSE MaxKey(days_per_month)

---------------------------------------------------------------------------
(* Fonts: FontManager, src/bujo/render/primitives.py lines 20-70 *)

\* typography.font_path_regular and font_path_italic under asset_root
RegularPath == "fonts/EBGaramond-Regular.ttf"
ItalicPath == "fonts/EBGaramond-Italic.ttf"
FontPaths == { RegularPath, ItalicPath }

\* FontSpec(name, font, file): the font object is the one loaded from `file`,
\* or the built-in font `name` when file is None
FontSpec(name, file) == [name |-> name, file |-> file]
None == "None"
\* _regular and _italic before resolve
NoFontSpec == [name |-> None, file |-> None]

\* fitz.Font(fontfile=path) and insert_font(fontfile=path) succeed only on a
\* file that exists
FontFile(path, files) == path \in files

\* FontManager.__init__; `failed` records a fitz.Font(fontfile=..) call on a
\* file that does not exist, which raises
NewFontManager ==
    [resolved |-> FALSE, regular |-> NoFontSpec, italic |-> NoFontSpec,
     missing |-> <<>>, failed |-> FALSE]

\* one branch pair of resolve (lines 35-41, 43-49): the spec and the
\* addition to _missing for a font file, given the files that exist
ResolveOne(path, name, fallback, files) ==
    IF path \in files
      THEN [spec |-> FontSpec(name, path), missing |-> <<>>,
            failed |-> ~FontFile(path, files)]
      ELSE [spec |-> FontSpec(fallback, None), missing |-> <<path>>,
            failed |-> FALSE]

\* resolve without the _resolved test of lines 30-31
resolve_every_time(fm, files) ==
    LET r == ResolveOne(RegularPath, "EBGaramond", "helv", files)
        i == ResolveOne(ItalicPath, "EBGaramondIt", "helvI", files)
    IN  [resolved |-> TRUE, regular |-> r.spec, italic |-> i.spec,
         missing |-> fm.missing \o r.missing \o i.missing,
         failed |-> fm.failed \/ r.failed \/ i.failed]

\* FontManager.resolve: the manager after the call
resolve(fm, files) ==
    IF fm.resolved THEN fm
    ELSE LET r == ResolveOne(RegularPath, "EBGaramond", "helv", files)
             i == ResolveOne(ItalicPath, "EBGaramondIt", "helvI", files)
         IN  [resolved |-> TRUE, regular |-> r.spec, italic |-> i.spec,
              missing |-> fm.missing \o r.missing \o i.missing,
              failed |-> fm.failed \/ r.failed \/ i.failed]

\* FontManager.font(italic) on a resolved manager
font(fm, italic) == IF italic THEN fm.italic ELSE fm.regular

\* the fonts register_page inserts: the specs that have a file
Registered(fm) ==
    { spec \in { fm.regular, fm.italic } : spec # NoFontSpec /\ spec.file # None }

---------------------------------------------------------------------------
(* Validation report: src/bujo/validation.py *)

\* ValidationReport(missing_fonts, invalid_links, expected_pages, actual_pages)
ValidationReport(missing_fonts, invalid_links, expected_pages, actual_pages) ==
    [missing_fonts |-> missing_fonts, invalid_links |-> invalid_links,
     expected_pages |-> expected_pages, actual_pages |-> actual_pages]

\* `not xs` of a Python list: true of the empty list only
Not(xs) == Len(xs) = 0

\* ok that does not compare the page counts
ok_ignoring_pages(r) == Not(r.missing_fonts) /\ Not(r.invalid_links)

\* ValidationReport.ok
ok(r) ==
    /\ Not(r.missing_fonts)
    /\ Not(r.invalid_links)
    /\ r.expected_pages = r.actual_pages

\* the three f-strings of summary_lines, as the literal text and the numbers
\* formatted into it, and the literal of line 27
MismatchLine(expected, actual) ==
    <<"page-count mismatch: expected ", expected, ", got ", actual>>
MissingFontsLine(n) == <<"missing fonts: ", n>>
InvalidLinksLine(n) == <<"invalid links: ", n>>
OkLine == <<"validation ok">>

\* summary_lines that reports the missing fonts before the page counts
summary_lines_fonts_first(r) ==
    LET l1 == IF ~Not(r.missing_fonts)
                THEN <<MissingFontsLine(Len(r.missing_fonts))>> ELSE <<>>
        l2 == IF r.expected_pages # r.actual_pages
                THEN Append(l1, MismatchLine(r.expected_pages, r.actual_pages))
                ELSE l1
        l3 == IF ~Not(r.invalid_links)
                THEN Append(l2, InvalidLinksLine(Len(r.invalid_links))) ELSE l2
    IN  IF Not(l3) THEN Append(l3, OkLine) ELSE l3

\* ValidationReport.summary_lines: l1, l2, l3 are `lines` after the first,
\* second and third `if`
summary_lines(r) ==
    LET l1 == IF r.expected_pages # r.actual_pages
                THEN <<MismatchLine(r.expected_pages, r.actual_pages)>> ELSE <<>>
        l2 == IF ~Not(r.missing_fonts)
                THEN Append(l1, MissingFontsLine(Len(r.missing_fonts))) ELSE l1
        l3 == IF ~Not(r.invalid_links)
                THEN Append(l2, InvalidLinksLine(Len(r.invalid_links))) ELSE l2
    IN  IF Not(l3) THEN Append(l3, OkLine) ELSE l3

\* no report built yet
NoReport ==
    [missing_fonts |-> <<>>, invalid_links |-> <<>>,
     expected_pages |-> -1, actual_pages |-> -1]

\* no method called yet on a report or a calendar
NoQuery == [op |-> "none", args |-> <<>>, result |-> <<>>]

---------------------------------------------------------------------------
(* Link ledger: src/bujo/link_manager.py *)

\* rectangles in page coordinates, as the 4-tuples add() is given
Rects == { <<0, 0, 10, 10>>, <<5, 5, 20, 20>> }
\* source page indices and destinations handed to add(): any integer
PageIdxs == -1..MaxPages
DestIdxs == -1..MaxPages

\* DeferredLink(page_idx, rect, dest_page_idx); id is the identity of the
\* object: the n-th link created has id n
DeferredLink(id, page_idx, rect, dest_page_idx) ==
    [id |-> id, page_idx |-> page_idx, rect |-> rect,
     dest_page_idx |-> dest_page_idx]

\* fitz.Rect(t) of a 4-tuple
Rect(t) == [x0 |-> t[1], y0 |-> t[2], x1 |-> t[3], y1 |-> t[4]]

\* `i in doc` for an integer i (fitz Document.__contains__): i < page_count;
\* doc[i] raises IndexError when it is false
PageInDocument(i, page_count) == i < page_count

\* the page number of doc[i] (fitz load_page): a negative i counts from the end
LoadPage(i, page_count) == i % page_count

\* the link page.insert_link adds to page number pno for `link`
LinkAnnot(pno, link) ==
    [page |-> pno, kind |-> "LINK_GOTO", to |-> link.dest_page_idx,
     from |-> Rect(link.rect), link |-> link.id]

\* the test of line 29
DestValid(link, total_pages) ==
    0 <= link.dest_page_idx /\ link.dest_page_idx < total_pages

\* apply's loop leaving the loop at the first invalid link
RECURSIVE ApplyLoopBreaking(_, _, _, _, _)
ApplyLoopBreaking(ls, i, total_pages, inserted, invalid) ==
    IF i > Len(ls)
      THEN [raised |-> FALSE, inserted |-> inserted, invalid |-> invalid]
      ELSE IF DestValid(ls[i], total_pages)
             THEN IF ~PageInDocument(ls[i].page_idx, total_pages)
                    THEN [raised |-> TRUE, inserted |-> inserted, invalid |-> <<>>]
                    ELSE ApplyLoopBreaking(ls, i + 1, total_pages,
                             Append(inserted,
                                 LinkAnnot(LoadPage(ls[i].page_idx, total_pages), ls[i])),
                             invalid)
             ELSE [raised |-> FALSE, inserted |-> inserted,
                   invalid |-> Append(invalid, ls[i])]

\* apply's loop from the i-th link on: `inserted` are the links inserted so
\* far, `invalid` the local list. The result: whether doc[link.page_idx]
\* raised, the links inserted by the call and the list returned (nothing is
\* returned when the call raises).
RECURSIVE ApplyLoop(_, _, _, _, _)
ApplyLoop(ls, i, total_pages, inserted, invalid) ==
    IF i > Len(ls)
      THEN [raised |-> FALSE, inserted |-> inserted, invalid |-> invalid]
      ELSE IF DestValid(ls[i], total_pages)
             THEN IF ~PageInDocument(ls[i].page_idx, total_pages)
                    THEN [raised |-> TRUE, inserted |-> inserted, invalid |-> <<>>]
                    ELSE ApplyLoop(ls, i + 1, total_pages,
                             Append(inserted,
                                 LinkAnnot(LoadPage(ls[i].page_idx, total_pages), ls[i])),
                             invalid)
             ELSE ApplyLoop(ls, i + 1, total_pages, inserted, Append(invalid, ls[i]))

\* no LinkManager call made yet
NoCall ==
    [op |-> "none", page_idx |-> 0, rect |-> <<>>, dest_page_idx |-> 0,
     raised |-> FALSE, inserted |-> <<>>, invalid |-> <<>>]

\* a document of any page count (generate() lines 56-58) and LinkManager();
\* the page-map side is not used: the settings are the defaults, nothing built
InitLinks ==
    /\ doc_pages \in 0..MaxPages
    /\ doc_links = <<>>
    /\ links = <<>>
    /\ last = NoCall
    /\ reports = <<>>
    /\ apply_log = <<>>
    /\ pc = "start"
    /\ settings = DefaultSettings
    /\ calendar = NoCalendar
    /\ page_map = NoPageMap
    /\ page_counts = NoPageCounts
    /\ report = NoReport
    /\ query = NoQuery
    /\ font_files = {}
    /\ drawn = <<>>
    /\ font_manager = NewFontManager
    /\ page_fonts = {}

\* LinkManager.add
Add(page_idx, rect, dest_page_idx) ==
    /\ Len(links) < MaxLinks
    /\ Len(links) + Len(apply_log) < MaxCalls
    /\ links' = Append(links,
                       DeferredLink(Len(links) + 1, page_idx, rect, dest_page_idx))
    /\ last' = [op |-> "add", page_idx |-> page_idx, rect |-> rect,
                dest_page_idx |-> dest_page_idx,
                raised |-> FALSE, inserted |-> <<>>, invalid |-> <<>>]
    /\ UNCHANGED <<doc_pages, doc_links, reports, apply_log>>

\* apply that empties the ledger once it has walked it
ApplyClearing ==
    /\ Len(links) + Len(apply_log) < MaxCalls
    /\ LET r == ApplyLoop(links, 1, doc_pages, <<>>, <<>>)
       IN  /\ doc_links' = doc_links \o r.inserted
           /\ reports' = reports \o r.invalid
           /\ last' = [op |-> "apply", page_idx |-> 0, rect |-> <<>>,
                       dest_page_idx |-> 0, raised |-> r.raised,
                       inserted |-> r.inserted, invalid |-> r.invalid]
    /\ apply_log' = Append(apply_log, Len(links))
    /\ links' = <<>>
    /\ UNCHANGED doc_pages

\* LinkManager.apply(doc)
Apply ==
    /\ Len(links) + Len(apply_log) < MaxCalls
    /\ LET r == ApplyLoop(links, 1, doc_pages, <<>>, <<>>)
       IN  /\ doc_links' = doc_links \o r.inserted
           /\ reports' = reports \o r.invalid
           /\ last' = [op |-> "apply", page_idx |-> 0, rect |-> <<>>,
                       dest_page_idx |-> 0, raised |-> r.raised,
                       inserted |-> r.inserted, invalid |-> r.invalid]
    /\ apply_log' = Append(apply_log, Len(links))
    /\ UNCHANGED <<doc_pages, links>>

NextLinks ==
    \/ \E page_idx \in PageIdxs, rect \in Rects, dest_page_idx \in DestIdxs :
          Add(page_idx, rect, dest_page_idx) /\ UNCHANGED <<pmVars, vrVars>>
    \/ Apply /\ UNCHANGED <<pmVars, vrVars>>

SpecLinks == InitLinks /\ [][NextLinks]_vars

---------------------------------------------------------------------------
(* Link ledger: the claims *)

\* the recorded links with a destination outside [0, len(doc)), in order
InvalidLinks == SelectSeq(links, LAMBDA l : ~DestValid(l, doc_pages))
\* the recorded links with a destination inside [0, len(doc)), in order
ValidLinks == SelectSeq(links, LAMBDA l : DestValid(l, doc_pages))

\* s is a prefix of t
IsPrefix(s, t) == Len(s) <= Len(t) /\ SubSeq(t, 1, Len(s)) = s

\* number of link annotations of the document that come from the i-th link
AnnotCount(i) ==
    Cardinality({k \in 1..Len(doc_links) : doc_links[k].link = links[i].id})
\* number of times the i-th link was returned as invalid
ReportCount(i) ==
    Cardinality({k \in 1..Len(reports) : reports[k].id = links[i].id})

\* C6: apply on a document with P pages, N links recorded, K of them with a
\* destination outside [0, P): it returns exactly those K links, inserts
\* exactly N-K link annotations, and every returned link is a recorded one.
C6_ApplyPartitionsByDestination ==
    last.op = "apply" =>
        /\ ~last.raised
        /\ last.invalid = InvalidLinks
        /\ Len(last.inserted) = Len(links) - Len(InvalidLinks)
        /\ \A k \in 1..Len(last.invalid) :
              \E i \in 1..Len(links) : links[i] = last.invalid[k]

\* C7: apply walks the ledger in record order: the links it inserts are, in
\* order, one go-to link per recorded link with a valid destination, on the
\* page its page_idx denotes, with its rectangle and its destination; the
\* list it returns holds the invalid links in record order.
C7_ApplyInRecordOrder ==
    last.op = "apply" =>
        /\ ~last.raised
        /\ last.inserted =
              [k \in 1..Len(ValidLinks) |->
                  [page |-> LoadPage(ValidLinks[k].page_idx, doc_pages),
                   kind |-> "LINK_GOTO",
                   to |-> ValidLinks[k].dest_page_idx,
                   from |-> Rect(ValidLinks[k].rect),
                   link |-> ValidLinks[k].id]]
        /\ last.invalid = InvalidLinks

\* C8: the ledger is append-only. add is possible with any arguments (no
\* validation); it appends exactly one DeferredLink holding its three
\* arguments and leaves the earlier links and the document as they were;
\* apply leaves the ledger as it was. So the ledger before a call is a
\* prefix of the ledger after it.
C8_LedgerAppendOnly ==
    /\ [](Len(links) < MaxLinks /\ Len(links) + Len(apply_log) < MaxCalls
            => \A page_idx \in PageIdxs, rect \in Rects, dest_page_idx \in DestIdxs :
                  ENABLED Add(page_idx, rect, dest_page_idx))
    /\ [][ /\ IsPrefix(links, links')
           /\ last'.op = "add" =>
                /\ links' = Append(links,
                                [id |-> Len(links) + 1,
                                 page_idx |-> last'.page_idx,
                                 rect |-> last'.rect,
                                 dest_page_idx |-> last'.dest_page_idx])
                /\ doc_links' = doc_links
                /\ doc_pages' = doc_pages
           /\ last'.op = "apply" => links' = links ]_vars

\* add, apply, add have run: the second add recorded a link with a negative
\* destination and a source page outside the document
C8_Witness ==
    /\ Len(links) = 2
    /\ apply_log = <<1>>
    /\ last.op = "add"
    /\ links[2].dest_page_idx < 0
    /\ links[2].page_idx >= doc_pages
    /\ links[1].rect # links[2].rect

\* C9: apply never ends in an error, whatever was recorded.
C9_ApplyNeverRaises ==
    last.op = "apply" => ~last.raised

\* C10: every recorded link is consumed exactly once over any sequence of
\* add and apply calls: no link gives more than one annotation nor is
\* reported more than once, and once an apply call has returned every
\* recorded link with a valid destination has given exactly one annotation
\* and every invalid one has been reported exactly once.
C10_ConsumedExactlyOnce ==
    \A i \in 1..Len(links) :
        /\ AnnotCount(i) <= 1
        /\ ReportCount(i) <= 1
        /\ last.op = "apply" /\ ~last.raised =>
              IF DestValid(links[i], doc_pages)
                THEN AnnotCount(i) = 1 /\ ReportCount(i) = 0
                ELSE AnnotCount(i) = 0 /\ ReportCount(i) = 1

\* the i-th link stops apply's walk: its destination is valid and its source
\* page index is not in the document
Blocks(i) ==
    DestValid(links[i], doc_pages) /\ links[i].page_idx >= doc_pages
\* the apply calls made since the i-th link was recorded
CallsSince(i) == {k \in 1..Len(apply_log) : apply_log[k] >= i}

\* C10 as amended: a link is handled once per apply call, not once overall.
\* apply removes and marks nothing, so each call walks the ledger again from
\* its first link, up to the first link that stops it. A link with a valid
\* destination has given one annotation per apply call made since it was
\* recorded (none when the walk cannot reach it), and an invalid link has
\* been reported once per such call that returned.
C10_HandledOncePerApply ==
    \A i \in 1..Len(links) :
        /\ AnnotCount(i) =
              IF DestValid(links[i], doc_pages) /\ \A j \in 1..i : ~Blocks(j)
                THEN Cardinality(CallsSince(i))
                ELSE 0
        /\ ReportCount(i) =
              IF ~DestValid(links[i], doc_pages)
                THEN Cardinality({k \in CallsSince(i) :
                                    \A j \in 1..apply_log[k] : ~Blocks(j)})
                ELSE 0

\* two links were recorded and apply ran twice: the first link has given two
\* annotations and the second was reported twice
C10_Witness ==
    /\ Len(links) = 2
    /\ apply_log = <<2, 2>>
    /\ AnnotCount(1) = 2
    /\ ReportCount(2) = 2

---------------------------------------------------------------------------
(* generate(), lines 53-54: the calendar and the page map are built from   *)
(* the settings before anything else happens.                              *)

\* generate() is entered with some Settings value; no document and no
\* LinkManager exist yet (they are created at lines 56-60)
InitPageMap ==
    /\ pc = "start"
    /\ settings \in SettingsValues
    /\ calendar = NoCalendar
    /\ page_map = NoPageMap
    /\ page_counts = NoPageCounts
    /\ doc_pages = 0
    /\ doc_links = <<>>
    /\ links = <<>>
    /\ last = NoCall
    /\ reports = <<>>
    /\ apply_log = <<>>
    /\ report = NoReport
    /\ query = NoQuery
    /\ font_files = {}
    /\ drawn = <<>>
    /\ font_manager = NewFontManager
    /\ page_fonts = {}

BuildCalendar ==
    /\ pc = "start"
    /\ calendar' = for_year(settings.year)
    /\ pc' = "calendar"
    /\ UNCHANGED <<settings, page_map, page_counts>>

BuildPageMap ==
    /\ pc = "calendar"
    /\ page_map' = build_page_map(settings, calendar)
    /\ page_counts' = build_page_counts(settings, calendar)
    /\ pc' = "mapped"
    /\ UNCHANGED <<settings, calendar>>

NextPageMap ==
    \/ BuildCalendar /\ UNCHANGED <<lmVars, vrVars>>
    \/ BuildPageMap /\ UNCHANGED <<lmVars, vrVars>>

SpecPageMap == InitPageMap /\ [][NextPageMap]_vars

---------------------------------------------------------------------------
(* Page map: the claims *)

\* Settings the page-map contract is stated for: strides >= 1, counts >= 0
ValidSettings(s) ==
    /\ s.pages_per_day >= 1
    /\ s.pages_per_collection >= 1
    /\ s.num_guide_pages >= 0
    /\ s.num_future_log_pages >= 0
    /\ s.num_collections_per_index >= 0
    /\ s.num_collection_indexes >= 0

FixedPages == {"cover", "main_index", "year_index",
               "collection_index_c", "collection_index_d"}

\* every (accessor, index, sub-page) triple with a valid index
Entities(s, cal) ==
    (FixedPages \X {0} \X {0})
    \cup ({"month_timeline", "month_action_plan"} \X (0..11) \X {0})
    \cup ({"weekly_action", "weekly_reflection"}
            \X (0..(cal.weeks_in_year - 1)) \X {0})
    \cup ({"daily_page"} \X (0..(cal.total_days - 1))
            \X (0..(s.pages_per_day - 1)))
    \cup ({"collection_page"}
            \X (0..(s.num_collections_per_index * s.num_collection_indexes - 1))
            \X {0})

\* the page index the accessor returns for the triple
PageOf(pm, e) ==
    CASE e[1] = "cover" -> pm.cover
      [] e[1] = "main_index" -> pm.main_index
      [] e[1] = "year_index" -> pm.year_index
      [] e[1] = "collection_index_c" -> pm.collection_index_c
      [] e[1] = "collection_index_d" -> pm.collection_index_d
      [] e[1] = "month_timeline" -> month_timeline(pm, e[2])
      [] e[1] = "month_action_plan" -> month_action_plan(pm, e[2])
      [] e[1] = "weekly_action" -> weekly_action(pm, e[2])
      [] e[1] = "weekly_reflection" -> weekly_reflection(pm, e[2])
      [] e[1] = "daily_page" -> daily_page(pm, e[2], e[3])
      [] e[1] = "collection_page" -> collection_page(pm, e[2])

\* the interval [lo, hi) of the section the accessor belongs to
SectionOf(pm, name) ==
    CASE name \in FixedPages -> <<0, 5>>
      [] name \in {"month_timeline", "month_action_plan"}
            -> <<pm.monthly_start, pm.weekly_start>>
      [] name \in {"weekly_action", "weekly_reflection"}
            -> <<pm.weekly_start, pm.daily_start>>
      [] name = "daily_page" -> <<pm.daily_start, pm.collection_start>>
      [] name = "collection_page" -> <<pm.collection_start, pm.total_pages>>

\* the seven intervals [lo, hi), in page order
Sections(pm) ==
    << <<0, 5>>,
       <<pm.guide_start, pm.future_log_start>>,
       <<pm.future_log_start, pm.monthly_start>>,
       <<pm.monthly_start, pm.weekly_start>>,
       <<pm.weekly_start, pm.daily_start>>,
       <<pm.daily_start, pm.collection_start>>,
       <<pm.collection_start, pm.total_pages>> >>

\* C1: build_page_map accumulates the offsets sequentially, each start being
\* the previous start plus the previous section's size as build_page_counts
\* gives it; total_pages is 5 plus the six section sizes; and the default
\* layout on a 365-day, 52-week year gives 5, 11, 15, 39, 143, 873, 909.
C1_SequentialAccumulation ==
    pc = "mapped" =>
        /\ page_map.cover = 0
        /\ page_map.main_index = 1
        /\ page_map.year_index = 2
        /\ page_map.collection_index_c = 3
        /\ page_map.collection_index_d = 4
        /\ page_map.guide_start = 5
        /\ page_map.future_log_start = page_map.guide_start + settings.num_guide_pages
        /\ page_map.monthly_start =
              page_map.future_log_start + settings.num_future_log_pages
        /\ page_map.weekly_start = page_map.monthly_start + 24
        /\ page_map.daily_start = page_map.weekly_start + 2 * calendar.weeks_in_year
        /\ page_map.collection_start =
              page_map.daily_start + calendar.total_days * settings.pages_per_day
        /\ page_map.total_pages =
              page_map.collection_start
                + settings.num_collections_per_index
                    * settings.num_collection_indexes
                    * settings.pages_per_collection
        /\ page_map.total_pages =
              5 + page_counts.guide_pages + page_counts.future_log_pages
                + page_counts.monthly_pages + page_counts.weekly_pages
                + page_counts.daily_pages + page_counts.collection_pages
        /\ ( /\ settings.pages_per_day = 2
             /\ settings.num_guide_pages = 6
             /\ settings.num_future_log_pages = 4
             /\ calendar.total_days = 365
             /\ calendar.weeks_in_year = 52
             /\ settings.num_collections_per_index = 18
             /\ settings.num_collection_indexes = 2
             /\ settings.pages_per_collection = 1
             => /\ page_map.guide_start = 5
                /\ page_map.future_log_start = 11
                /\ page_map.monthly_start = 15
                /\ page_map.weekly_start = 39
                /\ page_map.daily_start = 143
                /\ page_map.collection_start = 873
                /\ page_map.total_pages = 909 )

\* the default layout for 2025 (365 days, 52 ISO weeks) has been mapped
C1_Witness ==
    /\ pc = "mapped"
    /\ settings = [DefaultSettings EXCEPT !.year = DefaultYear - 1]
    /\ calendar.total_days = 365
    /\ calendar.weeks_in_year = 52
    /\ page_map.total_pages = 909

\* C2: with strides >= 1 and counts >= 0 the accessors are jointly
\* injective: over all valid indices, and together with the five fixed
\* pages, no two distinct (accessor, index) pairs give the same page.
C2_AccessorsInjective ==
    pc = "mapped" /\ ValidSettings(settings) =>
        LET E == Entities(settings, calendar)
        IN  Cardinality({PageOf(page_map, e) : e \in E}) = Cardinality(E)

\* a valid layout with two pages per day, two pages per collection and at
\* least two collections has been mapped
C2_Witness ==
    /\ pc = "mapped"
    /\ ValidSettings(settings)
    /\ settings.pages_per_day = 2
    /\ settings.pages_per_collection = 2
    /\ settings.num_collections_per_index * settings.num_collection_indexes >= 2
    /\ Cardinality(Entities(settings, calendar))
         = 5 + 24 + 2 * calendar.weeks_in_year + 2 * calendar.total_days
             + settings.num_collections_per_index * settings.num_collection_indexes

\* the pages of day D: pages_per_day consecutive indices from
\* daily_start + D * pages_per_day
DayRange(pm, D) ==
    (pm.daily_start + D * pm.pages_per_day)
        ..(pm.daily_start + D * pm.pages_per_day + pm.pages_per_day - 1)

\* C3: the sub-pages 0..pages_per_day-1 of day D are exactly the
\* pages_per_day consecutive indices from daily_start + D*pages_per_day, in
\* order, and no (day, sub-page) pair of another day maps into that range
\* (the day ranges hold total_days * pages_per_day distinct pages).
C3_DailyPagesConsecutive ==
    pc = "mapped" =>
        LET Days == 0..(calendar.total_days - 1)
            Subs == 0..(settings.pages_per_day - 1)
        IN  /\ \A D \in Days :
                 /\ \A p \in Subs :
                      daily_page(page_map, D, p)
                        = page_map.daily_start + D * settings.pages_per_day + p
                 /\ {daily_page(page_map, D, p) : p \in Subs} = DayRange(page_map, D)
            /\ Cardinality({daily_page(page_map, e[1], e[2]) : e \in Days \X Subs})
                 = Cardinality(Days \X Subs)

\* a leap year with two pages per day has been mapped
C3_Witness ==
    /\ pc = "mapped"
    /\ settings.pages_per_day = 2
    /\ calendar.total_days = 366
    /\ daily_page(page_map, 365, 1) = page_map.collection_start - 1

\* C4: with strides >= 1 and counts >= 0 the seven section intervals tile
\* [0, total_pages) (each begins where the previous one ends, so every page
\* lies in exactly one), and every accessor applied to a valid index returns
\* a page of its own section.
C4_SectionsPartitionPages ==
    pc = "mapped" /\ ValidSettings(settings) =>
        LET S == Sections(page_map)
        IN  /\ S[1][1] = 0
            /\ S[7][2] = page_map.total_pages
            /\ \A i \in 1..7 : S[i][1] <= S[i][2]
            /\ \A i \in 1..6 : S[i][2] = S[i + 1][1]
            /\ \A p \in 0..(page_map.total_pages - 1) :
                 Cardinality({i \in 1..7 : S[i][1] <= p /\ p < S[i][2]}) = 1
            /\ \A e \in Entities(settings, calendar) :
                 LET iv == SectionOf(page_map, e[1])
                     p == PageOf(page_map, e)
                 IN  iv[1] <= p /\ p < iv[2]

\* a valid layout in which no section is empty has been mapped
C4_Witness ==
    /\ pc = "mapped"
    /\ ValidSettings(settings)
    /\ \A i \in 1..7 : Sections(page_map)[i][1] < Sections(page_map)[i][2]
    /\ settings.pages_per_collection = 2

\* C5: for every constructible Settings value the section starts are
\* ordered: 4 < guide_start <= future_log_start <= monthly_start
\* < weekly_start < daily_start <= collection_start <= total_pages.
C5_SectionStartsOrdered ==
    pc = "mapped" =>
        /\ 4 < page_map.guide_start
        /\ page_map.guide_start <= page_map.future_log_start
        /\ page_map.future_log_start <= page_map.monthly_start
        /\ page_map.monthly_start < page_map.weekly_start
        /\ page_map.weekly_start < page_map.daily_start
        /\ page_map.daily_start <= page_map.collection_start
        /\ page_map.collection_start <= page_map.total_pages


---------------------------------------------------------------------------
(* Validation report: a report is built from any four field values and     *)
(* then asked for ok and summary_lines.                                    *)

\* missing_fonts holds up to MaxReportFonts paths
MaxReportFonts == 2
\* invalid_links holds up to MaxReportLinks links
MaxReportLinks == 1
\* expected_pages and actual_pages range over 0..MaxReportPages
MaxReportPages == 2

\* the sequences over S of length 0..n
SeqsUpTo(S, n) == UNION { [1..k -> S] : k \in 0..n }

\* links a report can carry: a destination below 0 and one past the end
ReportLinks ==
    { DeferredLink(1, 0, <<0, 0, 10, 10>>, d) : d \in {-1, MaxReportPages} }

\* nothing built, nothing asked; the generator and the ledger are not used
InitValidation ==
    /\ report = NoReport
    /\ query = NoQuery
    /\ pc = "start"
    /\ settings = DefaultSettings
    /\ calendar = NoCalendar
    /\ page_map = NoPageMap
    /\ page_counts = NoPageCounts
    /\ doc_pages = 0
    /\ doc_links = <<>>
    /\ links = <<>>
    /\ last = NoCall
    /\ reports = <<>>
    /\ apply_log = <<>>
    /\ font_files = {}
    /\ drawn = <<>>
    /\ font_manager = NewFontManager
    /\ page_fonts = {}

\* ValidationReport(...): the dataclass constructor stores its arguments
NewReport(missing_fonts, invalid_links, expected_pages, actual_pages) ==
    /\ report = NoReport
    /\ report' = ValidationReport(missing_fonts, invalid_links,
                                  expected_pages, actual_pages)
    /\ UNCHANGED query

\* report.ok
CallOk ==
    /\ report # NoReport
    /\ query' = [op |-> "ok", args |-> <<>>, result |-> ok(report)]
    /\ UNCHANGED report

\* report.summary_lines()
CallSummaryLines ==
    /\ report # NoReport
    /\ query' = [op |-> "summary_lines", args |-> <<>>,
                 result |-> summary_lines(report)]
    /\ UNCHANGED report

NextValidation ==
    \/ \E mf \in SeqsUpTo(FontPaths, MaxReportFonts),
          il \in SeqsUpTo(ReportLinks, MaxReportLinks),
          e \in 0..MaxReportPages, a \in 0..MaxReportPages :
          NewReport(mf, il, e, a)
            /\ UNCHANGED <<pmVars, lmVars, font_files, drawn, font_manager, page_fonts>>
    \/ CallOk /\ UNCHANGED <<pmVars, lmVars, font_files, drawn, font_manager, page_fonts>>
    \/ CallSummaryLines /\ UNCHANGED <<pmVars, lmVars, font_files, drawn, font_manager, page_fonts>>

SpecValidation == InitValidation /\ [][NextValidation]_vars

---------------------------------------------------------------------------
(* Validation report: the claims *)

\* C11: ok is true if and only if missing_fonts is empty, invalid_links is
\* empty and expected_pages equals actual_pages, whatever the four fields.
C11_OkIffNoProblem ==
    query.op = "ok" =>
        (query.result = TRUE <=>
            /\ report.missing_fonts = <<>>
            /\ report.invalid_links = <<>>
            /\ report.expected_pages = report.actual_pages)

\* ok asked of a report whose only problem is the page count: it is FALSE
C11_Witness ==
    /\ query.op = "ok"
    /\ query.result = FALSE
    /\ report.missing_fonts = <<>>
    /\ report.invalid_links = <<>>
    /\ report.expected_pages # report.actual_pages

\* the problem categories of a report in the fixed order, each with whether
\* it is present and the line that reports it
Categories(r) ==
    << [present |-> r.expected_pages # r.actual_pages,
        line |-> MismatchLine(r.expected_pages, r.actual_pages)],
       [present |-> r.missing_fonts # <<>>,
        line |-> MissingFontsLine(Len(r.missing_fonts))],
       [present |-> r.invalid_links # <<>>,
        line |-> InvalidLinksLine(Len(r.invalid_links))] >>

IsPresent(c) == c.present

\* the lines of the categories that are present, in the fixed order
PresentLines(r) ==
    LET cs == SelectSeq(Categories(r), IsPresent)
    IN  [i \in 1..Len(cs) |-> cs[i].line]

\* C12: summary_lines returns exactly one line per problem category that is
\* present, in the order page-count mismatch, missing fonts, invalid links,
\* and the single line 'validation ok' when none is present; so the result
\* is ['validation ok'] if and only if ok is true, and it is never empty.
C12_SummaryLinesPerCategory ==
    query.op = "summary_lines" =>
        /\ query.result =
              (IF PresentLines(report) = <<>> THEN <<OkLine>>
                                               ELSE PresentLines(report))
        /\ (query.result = <<OkLine>>) <=> ok(report)
        /\ Len(query.result) >= 1

\* summary_lines asked of a report with all three problems
C12_Witness ==
    /\ query.op = "summary_lines"
    /\ Len(query.result) = 3
    /\ report.expected_pages # report.actual_pages
    /\ report.missing_fonts # <<>>
    /\ report.invalid_links # <<>>

---------------------------------------------------------------------------
(* Calendar model: a calendar is built for a year and then asked for       *)
(* days of the year, week numbers, week ranges and primary months.         *)

\* years range over DefaultYear-CalYearSpan..DefaultYear+CalYearSpan (every
\* weekday of January 1, leap and not), and the century years
CalYearSpan == 14
CenturyYears == { 1900, 2000, 2100 }
CalYears ==
    ((DefaultYear - CalYearSpan)..(DefaultYear + CalYearSpan)) \cup CenturyYears

\* the valid (month_idx, day) pairs of a calendar
ValidDays(cal) ==
    { md \in (0..11) \X (1..31) : md[2] <= cal.months[md[1] + 1].days }

\* the week numbers asked for: the valid ones, the one before and the one after
WeekNums(cal) == 0..(cal.weeks_in_year + 1)

\* generate() entered with the settings of some year; no calendar yet
InitCalendar ==
    /\ pc = "start"
    /\ settings \in { [DefaultSettings EXCEPT !.year = y] : y \in CalYears }
    /\ calendar = NoCalendar
    /\ query = NoQuery
    /\ page_map = NoPageMap
    /\ page_counts = NoPageCounts
    /\ doc_pages = 0
    /\ doc_links = <<>>
    /\ links = <<>>
    /\ last = NoCall
    /\ reports = <<>>
    /\ apply_log = <<>>
    /\ report = NoReport
    /\ font_files = {}
    /\ drawn = <<>>
    /\ font_manager = NewFontManager
    /\ page_fonts = {}

\* the calendar as for_year returned it, before any method is called. The
\* calendar is frozen and its methods keep no state, so a call does not
\* depend on the calls before it: each behaviour makes one call.
Built == pc = "calendar" /\ query.op = "none"

\* calendar.day_of_year(month_idx, day)
CallDayOfYear(month_idx, day) ==
    /\ Built
    /\ query' = [op |-> "day_of_year", args |-> <<month_idx, day>>,
                 result |-> day_of_year(calendar, month_idx, day)]

\* calendar.week_of_date(month_idx, day)
CallWeekOfDate(month_idx, day) ==
    /\ Built
    /\ query' = [op |-> "week_of_date", args |-> <<month_idx, day>>,
                 result |-> week_of_date(calendar, month_idx, day)]

\* calendar.week_date_range(week_num)
CallWeekDateRange(week_num) ==
    /\ Built
    /\ query' = [op |-> "week_date_range", args |-> <<week_num>>,
                 result |-> week_date_range(calendar, week_num)]

\* calendar.week_primary_month(week_num)
CallWeekPrimaryMonth(week_num) ==
    /\ Built
    /\ query' = [op |-> "week_primary_month", args |-> <<week_num>>,
                 result |-> week_primary_month(calendar, week_num)]

\* the methods read the frozen calendar and change nothing
CalendarUnchanged ==
    UNCHANGED <<pc, settings, calendar, page_map, page_counts, lmVars,
                report, font_files, drawn, font_manager, page_fonts>>

NextCalendar ==
    \/ BuildCalendar /\ UNCHANGED <<lmVars, vrVars>>
    \/ Built /\ \E md \in ValidDays(calendar) :
          CallDayOfYear(md[1], md[2]) /\ CalendarUnchanged
    \/ Built /\ \E md \in ValidDays(calendar) :
          CallWeekOfDate(md[1], md[2]) /\ CalendarUnchanged
    \/ Built /\ \E week_num \in WeekNums(calendar) :
          CallWeekDateRange(week_num) /\ CalendarUnchanged
    \/ Built /\ \E week_num \in WeekNums(calendar) :
          CallWeekPrimaryMonth(week_num) /\ CalendarUnchanged

SpecCalendar == InitCalendar /\ [][NextCalendar]_vars

---------------------------------------------------------------------------
(* Calendar model: the claims *)

\* C13: for every year Y, total_days is 366 if Y is a leap year (divisible
\* by 4, except centuries not divisible by 400) and 365 otherwise.
C13_TotalDaysLeapRule ==
    pc = "calendar" =>
        LET Y == calendar.year
            leap == Y % 4 = 0 /\ ~(Y % 100 = 0 /\ Y % 400 # 0)
        IN  calendar.total_days = (IF leap THEN 366 ELSE 365)

\* a century year that is not a leap year, with 365 days
C13_Witness ==
    /\ pc = "calendar"
    /\ calendar.year = 1900
    /\ calendar.total_days = 365

\* the days of the first k months
RECURSIVE SumDays(_, _)
SumDays(months, k) ==
    IF k = 0 THEN 0 ELSE SumDays(months, k - 1) + months[k].days

\* C14: for every year, for_year returns 12 MonthInfo records with index
\* 0..11 in order whose days sum to total_days, and start_day_of_year of
\* month i is the sum of the days of months 0..i-1 (0 for month 0), so the
\* offsets are strictly increasing and contiguous.
C14_MonthOffsetsAccumulate ==
    pc = "calendar" =>
        LET months == calendar.months
        IN  /\ Len(months) = 12
            /\ \A i \in 1..12 : months[i].index = i - 1
            /\ SumDays(months, 12) = calendar.total_days
            /\ \A i \in 1..12 :
                  months[i].start_day_of_year = SumDays(months, i - 1)
            /\ months[1].start_day_of_year = 0
            /\ \A i \in 1..11 :
                  /\ months[i].start_day_of_year < months[i + 1].start_day_of_year
                  /\ months[i + 1].start_day_of_year
                        = months[i].start_day_of_year + months[i].days

\* a leap year: March starts at offset 60
C14_Witness ==
    /\ pc = "calendar"
    /\ calendar.total_days = 366
    /\ calendar.months[3].start_day_of_year = 60

\* the week numbers of the ISO weeks of ISO year Y: those of the days
\* from a week before January 1 to a week after December 31 whose ISO year
\* is Y
IsoWeeksOf(Y) ==
    { IsoWeek(d.year, d.month, d.day) :
        d \in { e \in { FromOrdinal(n) :
                          n \in (Ordinal(Y, 1, 1) - 7)..(Ordinal(Y, 12, 31) + 7) } :
                  IsoYear(e.year, e.month, e.day) = Y } }

\* C15: for every year Y, weeks_in_year is 52 or 53 and is the ISO week
\* number of December 28 of Y, which is the number of ISO weeks of ISO year
\* Y; 2026 has total_days = 365 and weeks_in_year = 53.
C15_WeeksInYear ==
    Built =>
        LET Y == calendar.year
        IN  /\ calendar.weeks_in_year \in {52, 53}
            /\ calendar.weeks_in_year = IsoWeek(Y, 12, 28)
            /\ IsoWeeksOf(Y) = 1..calendar.weeks_in_year
            /\ Y = 2026 =>
                  /\ calendar.total_days = 365
                  /\ calendar.weeks_in_year = 53

\* the calendar of 2026: 365 days, 53 weeks
C15_Witness ==
    /\ Built
    /\ calendar.year = 2026
    /\ calendar.weeks_in_year = 53

\* (month, day) pairs in lexicographic order
LexLess(p, q) == p[1] < q[1] \/ (p[1] = q[1] /\ p[2] < q[2])

\* C16: for every year, day_of_year over the valid (month, day) pairs is
\* strictly increasing in lexicographic order and a bijection onto
\* [0, total_days): a pair is mapped to the number of pairs before it.
C16_DayOfYearBijection ==
    /\ Built =>
          /\ \A p, q \in ValidDays(calendar) :
                LexLess(p, q) =>
                    day_of_year(calendar, p[1], p[2])
                        < day_of_year(calendar, q[1], q[2])
          /\ { day_of_year(calendar, p[1], p[2]) : p \in ValidDays(calendar) }
                = 0..(calendar.total_days - 1)
          /\ Cardinality(ValidDays(calendar)) = calendar.total_days
    /\ query.op = "day_of_year" =>
          query.result
              = Cardinality({ p \in ValidDays(calendar) : LexLess(p, query.args) })

\* December 31 of a leap year asked for: day 365
C16_Witness ==
    /\ query.op = "day_of_year"
    /\ query.args = <<11, 31>>
    /\ query.result = 365

\* C17: for every year Y and week number w in 1..weeks_in_year,
\* week_date_range(w) is (start, end) with start a Monday, end the Sunday
\* six days later, every date from start to end in ISO week w of ISO year
\* Y, and the range of w+1 starting the day after end.
C17_WeekDateRange ==
    (query.op = "week_date_range" /\ query.args[1] \in 1..calendar.weeks_in_year) =>
        LET w == query.args[1]
            start == query.result[1]
            end == query.result[2]
        IN  /\ Weekday(start) = 0
            /\ Weekday(end) = 6
            /\ ToOrdinal(end) = ToOrdinal(start) + 6
            /\ \A n \in ToOrdinal(start)..ToOrdinal(end) :
                  LET d == FromOrdinal(n)
                  IN  /\ IsoWeek(d.year, d.month, d.day) = w
                      /\ IsoYear(d.year, d.month, d.day) = calendar.year
            /\ w < calendar.weeks_in_year =>
                  week_date_range(calendar, w + 1)[1] = PlusDays(end, 1)

\* week 1 asked for in a year whose week 1 starts in the December before
C17_Witness ==
    /\ query.op = "week_date_range"
    /\ query.args = <<1>>
    /\ query.result[1].year = calendar.year - 1
    /\ query.result[2].year = calendar.year

\* the days of week w that lie in month m (0-based) of the calendar's year
DaysOfWeekIn(cal, w, m) ==
    LET range == week_date_range(cal, w)
    IN  { n \in ToOrdinal(range[1])..ToOrdinal(range[2]) :
            /\ FromOrdinal(n).year = cal.year
            /\ FromOrdinal(n).month = m + 1 }

\* C18: for every year and week number w in 1..weeks_in_year,
\* week_primary_month(w) is the month of the year that contains 4 or more
\* of the week's 7 days; that month exists and is the only one, no other
\* month has as many days, and the week has a day in the year (the
\* January/December fallback is not taken).
C18_PrimaryMonthHasFourDays ==
    (query.op = "week_primary_month" /\ query.args[1] \in 1..calendar.weeks_in_year) =>
        LET w == query.args[1]
            range == week_date_range(calendar, w)
        IN  /\ query.result \in 0..11
            /\ Cardinality(DaysOfWeekIn(calendar, w, query.result)) >= 4
            /\ \A m \in 0..11 :
                  m # query.result =>
                      /\ Cardinality(DaysOfWeekIn(calendar, w, m)) < 4
                      /\ Cardinality(DaysOfWeekIn(calendar, w, m))
                            < Cardinality(DaysOfWeekIn(calendar, w, query.result))
            /\ CountDays(calendar, range[1], range[2], <<>>) # <<>>

\* week 1 asked for when only four of its days are in the year: January
C18_Witness ==
    /\ query.op = "week_primary_month"
    /\ query.args = <<1>>
    /\ query.result = 0
    /\ Cardinality(DaysOfWeekIn(calendar, 1, 0)) = 4

---------------------------------------------------------------------------
(* generate(): src/bujo/generator.py lines 52-125. The calendar and the    *)
(* page map are built, the pages are created, the page templates are       *)
(* called section by section, the ledger is applied, the report is built.  *)
(* A step is one block of generate(); pc names the block just finished.    *)

\* the Settings values generate() is run with: the defaults with at most
\* one field changed
GenSettings ==
    { [DefaultSettings EXCEPT !.year = v] : v \in Years }
    \cup { [DefaultSettings EXCEPT !.pages_per_day = v] :
             v \in Strides(DefaultPagesPerDay) }
    \cup { [DefaultSettings EXCEPT !.pages_per_collection = v] :
             v \in Strides(DefaultPagesPerCollection) }
    \cup { [DefaultSettings EXCEPT !.num_guide_pages = v] :
             v \in Counts(DefaultGuidePages) }
    \cup { [DefaultSettings EXCEPT !.num_future_log_pages = v] :
             v \in Counts(DefaultFutureLogPages) }
    \cup { [DefaultSettings EXCEPT !.num_collections_per_index = v] :
             v \in Counts(DefaultCollectionsPerIndex) }
    \cup { [DefaultSettings EXCEPT !.num_collection_indexes = v] :
             v \in Counts(DefaultCollectionIndexes) }

\* len(range(n)): the number of turns of `for _ in range(n)`
RangeLen(n) == IF n > 0 THEN n ELSE 0

\* FontManager.missing_fonts() given the font files that exist: resolve()
\* appends the regular path, then the italic path, when the file is absent
missing_fonts(files) ==
    (IF RegularPath \in files THEN <<>> ELSE <<RegularPath>>)
        \o (IF ItalicPath \in files THEN <<>> ELSE <<ItalicPath>>)

\* the page indices handed to the templates of lines 73-78, in call order
FrontPages(pm) ==
    <<pm.cover, pm.main_index, pm.year_index,
      pm.collection_index_c, pm.collection_index_d>>

\* lines 80-85: six guide templates on guide_start .. guide_start + 5
GuidePages(pm) == [k \in 1..6 |-> pm.guide_start + (k - 1)]

\* lines 87-88
FutureLogPages(s, pm) ==
    [k \in 1..RangeLen(s.num_future_log_pages) |-> pm.future_log_start + (k - 1)]

\* lines 90-92: timeline and action plan of each month in turn
MonthPages(pm) ==
    [k \in 1..24 |->
        IF k % 2 = 1 THEN month_timeline(pm, (k - 1) \div 2)
                     ELSE month_action_plan(pm, (k - 1) \div 2)]

\* lines 94-96: action plan and reflection of each week in turn
WeekPages(cal, pm) ==
    [k \in 1..(2 * RangeLen(cal.weeks_in_year)) |->
        IF k % 2 = 1 THEN weekly_action(pm, (k - 1) \div 2)
                     ELSE weekly_reflection(pm, (k - 1) \div 2)]

\* lines 98-106 from month `month` (1..12) on: for each day of each month
\* and each page_in_day in range(pages_per_day), the daily page
RECURSIVE DayPagesFrom(_, _, _, _)
DayPagesFrom(s, cal, pm, month) ==
    IF month > 12 THEN <<>>
    ELSE LET per_day == RangeLen(s.pages_per_day)
             of_month ==
               [k \in 1..(cal.months[month].days * per_day) |->
                   daily_page(pm,
                              day_of_year(cal, month - 1, ((k - 1) \div per_day) + 1),
                              (k - 1) % per_day)]
         IN  of_month \o DayPagesFrom(s, cal, pm, month + 1)

DayPages(s, cal, pm) == DayPagesFrom(s, cal, pm, 1)

\* lines 108-116
CollectionPages(s, pm) ==
    [k \in 1..RangeLen(s.num_collections_per_index * s.num_collection_indexes) |->
        collection_page(pm, k - 1)]

\* the templates of a block that run: every template starts with
\* doc[page_idx], which raises IndexError for a page index outside the
\* document, and generate() ends there
Reached(pages, page_count) ==
    LET bad == { k \in 1..Len(pages) : ~PageInDocument(pages[k], page_count) }
    IN  IF bad = {} THEN Len(pages)
        ELSE (CHOOSE k \in bad : \A j \in bad : k <= j) - 1

\* destinations a template may compute: a page of the document and the
\* index one past its last page
GenDests(pm) == { pm.main_index, pm.total_pages }

\* generate() entered with some Settings value, under an asset root where
\* any of the two font files may be missing
InitGenerate ==
    /\ pc = "start"
    /\ settings \in GenSettings
    /\ font_files \in SUBSET FontPaths
    /\ calendar = NoCalendar
    /\ page_map = NoPageMap
    /\ page_counts = NoPageCounts
    /\ doc_pages = 0
    /\ doc_links = <<>>
    /\ links = <<>>
    /\ last = NoCall
    /\ reports = <<>>
    /\ apply_log = <<>>
    /\ report = NoReport
    /\ query = NoQuery
    /\ drawn = <<>>
    /\ font_manager = NewFontManager
    /\ page_fonts = {}

\* new_page once too often
NewPagesAndBlank ==
    /\ pc = "mapped"
    /\ doc_pages' = RangeLen(page_map.total_pages) + 1
    /\ pc' = "pages"
    /\ UNCHANGED <<settings, calendar, page_map, page_counts, doc_links, links,
                   last, reports, apply_log, vrVars>>

\* lines 56-58: fitz.open() and one new_page per turn of range(total_pages)
NewPages ==
    /\ pc = "mapped"
    /\ doc_pages' = RangeLen(page_map.total_pages)
    /\ pc' = "pages"
    /\ UNCHANGED <<settings, calendar, page_map, page_counts, doc_links, links,
                   last, reports, apply_log, vrVars>>

\* lines 60-71: LinkManager(), FontManager, Renderer, PageContext
NewContext ==
    /\ pc = "pages"
    /\ links' = <<>>
    /\ last' = NoCall
    /\ pc' = "context"
    /\ UNCHANGED <<settings, calendar, page_map, page_counts, doc_pages,
                   doc_links, reports, apply_log, vrVars>>

\* generate_collection_index divides by num_lines (pages.py line 376):
\* ZeroDivisionError when num_collections_per_index is 0
collection_index_raises(s) == s.num_collections_per_index = 0

\* one block of template calls on `pages`: the templates run in order up to
\* the first whose page is outside the document, or up to the template at
\* position `raising` (0: none), which raises after it has loaded its page;
\* the pages they were handed are drawn, and the block records through
\* links.add either nothing or a link from its first page
DrawBlock(from, to, pages, raising) ==
    /\ pc = from
    /\ LET loaded == Reached(pages, doc_pages)
           n == IF raising >= 1 /\ loaded >= raising THEN raising ELSE loaded
       IN  /\ drawn' = drawn \o SubSeq(pages, 1, n)
           /\ pc' = IF loaded = Len(pages) /\ raising = 0 THEN to ELSE "raised"
           /\ \/ UNCHANGED <<links, last>>
              \/ /\ n >= 1
                 /\ \E dest \in GenDests(page_map) :
                       Add(pages[1], <<0, 0, 10, 10>>, dest)
    /\ UNCHANGED <<settings, calendar, page_map, page_counts, doc_pages,
                   doc_links, reports, apply_log, report, query, font_files,
                   font_manager, page_fonts>>

\* lines 73-78; the collection index C is the fourth template
DrawFront ==
    DrawBlock("context", "front", FrontPages(page_map),
              IF collection_index_raises(settings) THEN 4 ELSE 0)
DrawGuide == DrawBlock("front", "guide", GuidePages(page_map), 0)
DrawFutureLog ==
    DrawBlock("guide", "future_log", FutureLogPages(settings, page_map), 0)
DrawMonths == DrawBlock("future_log", "months", MonthPages(page_map), 0)
DrawWeeks == DrawBlock("months", "weeks", WeekPages(calendar, page_map), 0)
DrawDays == DrawBlock("weeks", "days", DayPages(settings, calendar, page_map), 0)
DrawCollections ==
    DrawBlock("days", "collections", CollectionPages(settings, page_map), 0)

\* line 118: invalid_links = links.apply(doc); an IndexError ends generate()
ApplyLinks ==
    /\ pc = "collections"
    /\ Apply
    /\ pc' = IF last'.raised THEN "raised" ELSE "applied"
    /\ UNCHANGED <<settings, calendar, page_map, page_counts, vrVars>>

\* a report that does not take the list apply returned
BuildReportWithoutLinks ==
    /\ pc = "applied"
    /\ report' = ValidationReport(missing_fonts(font_files), <<>>,
                                  page_map.total_pages, doc_pages)
    /\ pc' = "done"
    /\ UNCHANGED <<settings, calendar, page_map, page_counts, lmVars,
                   query, font_files, drawn, font_manager, page_fonts>>

\* lines 119-125: the report, from the list apply returned
BuildReport ==
    /\ pc = "applied"
    /\ report' = ValidationReport(missing_fonts(font_files), last.invalid,
                                  page_map.total_pages, doc_pages)
    /\ pc' = "done"
    /\ UNCHANGED <<settings, calendar, page_map, page_counts, lmVars,
                   query, font_files, drawn, font_manager, page_fonts>>

NextGenerate ==
    \/ BuildCalendar /\ UNCHANGED <<lmVars, vrVars>>
    \/ BuildPageMap /\ UNCHANGED <<lmVars, vrVars>>
    \/ NewPages
    \/ NewContext
    \/ DrawFront
    \/ DrawGuide
    \/ DrawFutureLog
    \/ DrawMonths
    \/ DrawWeeks
    \/ DrawDays
    \/ DrawCollections
    \/ ApplyLinks
    \/ BuildReport

SpecGenerate == InitGenerate /\ [][NextGenerate]_vars

---------------------------------------------------------------------------
(* generate(): the claims *)

\* C19: the steps of generate() happen in a fixed order: all total_pages
\* pages are created before any page content is drawn, every add call
\* happens before apply, apply is called exactly once per generated
\* document, and the report is built only after apply has returned, from
\* the list apply returned.
C19_GenerateOrder ==
    /\ [](drawn # <<>> => doc_pages = page_map.total_pages)
    /\ [](Len(apply_log) <= 1)
    /\ [](pc = "done" => Len(apply_log) = 1)
    /\ [][ /\ doc_pages' # doc_pages => (drawn = <<>> /\ drawn' = <<>>)
           /\ drawn' # drawn => (apply_log = <<>> /\ apply_log' = <<>>)
           /\ links' # links => (apply_log = <<>> /\ apply_log' = <<>>)
           /\ report' # report =>
                 /\ Len(apply_log) = 1
                 /\ last.op = "apply"
                 /\ ~last.raised
                 /\ report'.invalid_links = last.invalid ]_vars

\* a generated document whose ledger held a link that apply returned as
\* invalid and the report carries
C19_Witness ==
    /\ pc = "done"
    /\ Len(links) >= 1
    /\ Len(drawn) = doc_pages
    /\ report.invalid_links # <<>>

\* C20: for every Settings with total_pages >= 0 and every year, generate()
\* creates exactly total_pages pages and no later step adds or removes a
\* page, so a returned report has expected_pages = actual_pages and its ok
\* is true exactly when no font is missing and no link is invalid.
C20_PagesAsMapped ==
    (pc \notin {"start", "calendar", "mapped"} /\ page_map.total_pages >= 0) =>
        /\ doc_pages = page_map.total_pages
        /\ pc = "done" =>
              /\ report.expected_pages = page_map.total_pages
              /\ report.actual_pages = doc_pages
              /\ report.expected_pages = report.actual_pages
              /\ ok(report) <=>
                    /\ FontPaths \subseteq font_files
                    /\ \A i \in 1..Len(links) : DestValid(links[i], doc_pages)

\* the default settings (2026, 53 weeks): 911 pages created and drawn, both
\* fonts present, no link invalid
C20_Witness ==
    /\ pc = "done"
    /\ settings = DefaultSettings
    /\ doc_pages = 911
    /\ Len(drawn) = 911
    /\ Len(links) >= 1
    /\ ok(report)

---------------------------------------------------------------------------
(* Fonts: a FontManager under an asset root where any of the two font      *)
(* files may be missing, and any sequence of calls of its four methods.    *)

\* pages handed to register_page: 0..MaxFontPages
MaxFontPages == 2
\* the texts measured by text_length
Texts == { "Index", "W1" }

InitFonts ==
    /\ font_files \in SUBSET FontPaths
    /\ font_manager = NewFontManager
    /\ page_fonts = {}
    /\ query = NoQuery
    /\ report = NoReport
    /\ drawn = <<>>
    /\ pc = "start"
    /\ settings = DefaultSettings
    /\ calendar = NoCalendar
    /\ page_map = NoPageMap
    /\ page_counts = NoPageCounts
    /\ doc_pages = 0
    /\ doc_links = <<>>
    /\ links = <<>>
    /\ last = NoCall
    /\ reports = <<>>
    /\ apply_log = <<>>

\* font_manager.font(italic)
CallFont(italic) ==
    /\ font_manager' = resolve(font_manager, font_files)
    /\ query' = [op |-> "font", args |-> <<italic>>,
                 result |-> font(font_manager', italic)]
    /\ UNCHANGED page_fonts

\* font_manager.register_page(page): insert_font for each spec with a file
CallRegisterPage(page) ==
    /\ font_manager' =
          LET fm == resolve(font_manager, font_files)
          IN  [fm EXCEPT !.failed =
                  @ \/ \E spec \in Registered(fm) : ~FontFile(spec.file, font_files)]
    /\ page_fonts' = page_fonts
          \cup { <<page, spec.name>> : spec \in Registered(font_manager') }
    /\ query' = [op |-> "register_page", args |-> <<page>>, result |-> None]

\* font_manager.text_length(text, font_size, italic): the length is measured
\* by the font of the spec; the result names that font
CallTextLength(text, italic) ==
    /\ font_manager' = resolve(font_manager, font_files)
    /\ query' = [op |-> "text_length", args |-> <<text, italic>>,
                 result |-> font(font_manager', italic).name]
    /\ UNCHANGED page_fonts

\* font_manager.missing_fonts(): a copy of _missing
CallMissingFonts ==
    /\ font_manager' = resolve(font_manager, font_files)
    /\ query' = [op |-> "missing_fonts", args |-> <<>>,
                 result |-> font_manager'.missing]
    /\ UNCHANGED page_fonts

\* the asset root, the document's pages and everything else stay as they are
FontsUnchanged == UNCHANGED <<pmVars, lmVars, report, font_files, drawn>>

NextFonts ==
    \/ \E italic \in BOOLEAN : CallFont(italic) /\ FontsUnchanged
    \/ \E page \in 0..MaxFontPages : CallRegisterPage(page) /\ FontsUnchanged
    \/ \E text \in Texts, italic \in BOOLEAN :
          CallTextLength(text, italic) /\ FontsUnchanged
    \/ CallMissingFonts /\ FontsUnchanged

SpecFonts == InitFonts /\ [][NextFonts]_vars

\* a font spec that can be used: the configured font loaded from its file,
\* which exists, or the built-in fallback
Usable(spec, path, name, fallback) ==
    \/ spec = FontSpec(name, path) /\ path \in font_files
    \/ spec = FontSpec(fallback, None) /\ path \notin font_files

\* C21: a missing font file is a soft failure: the manager resolves at most
\* once, so after any sequence of font, register_page, text_length and
\* missing_fonts calls the missing list holds each missing path exactly once
\* (at most two entries, regular before italic), a usable font spec exists
\* for regular and for italic, and no call has failed for an absent file.
C21_MissingFontSoftFailure ==
    /\ ~font_manager.failed
    /\ font_manager.missing
          \in { <<>>, <<RegularPath>>, <<ItalicPath>>, <<RegularPath, ItalicPath>> }
    /\ query.op # "none" =>
          /\ font_manager.resolved
          /\ \A path \in FontPaths :
                Cardinality({ k \in 1..Len(font_manager.missing) :
                                font_manager.missing[k] = path })
                    = (IF path \in font_files THEN 0 ELSE 1)
          /\ Usable(font_manager.regular, RegularPath, "EBGaramond", "helv")
          /\ Usable(font_manager.italic, ItalicPath, "EBGaramondIt", "helvI")
    /\ query.op = "font" =>
          query.result = (IF query.args[1] THEN font_manager.italic
                                           ELSE font_manager.regular)
    /\ query.op = "missing_fonts" => query.result = missing_fonts(font_files)
    /\ \A pf \in page_fonts : pf[2] \in { "EBGaramond", "EBGaramondIt" }

\* the regular file is missing, a page was registered (with the italic font
\* only) and missing_fonts, called after it, returns the one path
C21_Witness ==
    /\ font_files = { ItalicPath }
    /\ page_fonts = { <<0, "EBGaramondIt">> }
    /\ query.op = "missing_fonts"
    /\ query.result = <<RegularPath>>

---------------------------------------------------------------------------
(* Page templates: src/bujo/render/pages.py. A template is modelled by the *)
(* links it records, in the order of its links.add and add_nav_link calls  *)
(* (add_nav_link ends with links.add, primitives.py line 359). Each link   *)
(* is the site of the call in the template and the destination it is      *)
(* handed; the source page is the page_idx of the template.                *)

TemplateLink(site, dest) == [site |-> site, dest |-> dest]

\* the 'Index' link most templates start with
IndexLink(dest) == <<TemplateLink("Index", dest)>>

\* CalendarModel.is_last_day_of_month
is_last_day_of_month(cal, month_idx, day) == day = cal.months[month_idx + 1].days

\* CalendarModel.is_last_day_of_week: Sunday
is_last_day_of_week(cal, month_idx, day) ==
    Weekday(Date(cal.year, month_idx + 1, day)) = 6

\* CalendarModel.compute_weeks_by_month: 12 lists (1-based here); the loop
\* appends week_num, in increasing order, to the list of its primary
\* month. primary is the list of the primary months of the weeks
\* (\o <<>> has TLC compute it once).
compute_weeks_by_month(cal) ==
    LET n == RangeLen(cal.weeks_in_year)
        primary == [week_num \in 1..n |-> week_primary_month(cal, week_num)] \o <<>>
    IN  [m \in 1..12 |->
            SelectSeq([week_num \in 1..n |-> week_num],
                      LAMBDA week_num : primary[week_num] = m - 1)]

\* generate_main_index, lines 179-195: the rows of guide_links, six guide
\* pages and the future log, each with a text link and an arrow link to the
\* same destination
GuideLinks(pm) ==
    [k \in 1..14 |->
        LET row == (k + 1) \div 2
        IN  IF row = 7
              THEN TemplateLink(IF k % 2 = 1 THEN "future log"
                                             ELSE "future log arrow",
                                pm.future_log_start)
              ELSE TemplateLink(IF k % 2 = 1 THEN "guide" ELSE "guide arrow",
                                pm.guide_start + (row - 1))]

\* generate_main_index, lines 229-280, from month `month` (1..12) on: the
\* link of the month's row and a link for each of its weeks
RECURSIVE MonthRowsFrom(_, _, _)
MonthRowsFrom(pm, weeks_by_month, month) ==
    IF month > 12 THEN <<>>
    ELSE <<TemplateLink("month", month_timeline(pm, month - 1))>>
         \o [i \in 1..Len(weeks_by_month[month]) |->
                TemplateLink("week", weekly_action(pm, weeks_by_month[month][i] - 1))]
         \o MonthRowsFrom(pm, weeks_by_month, month + 1)

\* generate_main_index
generate_main_index(cal, pm) ==
    LET weeks_by_month == compute_weeks_by_month(cal)
    IN  GuideLinks(pm) \o MonthRowsFrom(pm, weeks_by_month, 1)

\* generate_year_index, lines 316-349, from month `month` on: a link per
\* day, days 1..16 in the first column and 17.. in the second
RECURSIVE YearIndexFrom(_, _, _)
YearIndexFrom(cal, pm, month) ==
    IF month > 12 THEN <<>>
    ELSE [d \in 1..cal.months[month].days |->
             TemplateLink("day", daily_page(pm, day_of_year(cal, month - 1, d), 0))]
         \o YearIndexFrom(cal, pm, month + 1)

\* generate_year_index: the days, then the bottom navigation
generate_year_index(cal, pm) ==
    YearIndexFrom(cal, pm, 1) \o IndexLink(pm.main_index)

\* generate_collection_index: the links recorded (those before the raise
\* when it raises)
generate_collection_index(s, pm, letter) ==
    LET collection_offset ==
            IF letter = "C" THEN 0 ELSE s.num_collections_per_index
    IN  IndexLink(pm.main_index)
        \o (IF collection_index_raises(s) THEN <<>>
            ELSE [k \in 1..RangeLen(s.num_collections_per_index) |->
                     TemplateLink("collection",
                                  collection_page(pm, collection_offset + (k - 1)))])

\* the six guide templates generate() calls on guide_start + k, k in 0..5;
\* the second, generate_guide_set_up_logs, has a 'Get started' link on each
\* of its four cards (lines 973-1036)
generate_guide(pm, k) ==
    IndexLink(pm.main_index)
    \o (IF k = 1
          THEN <<TemplateLink("log", pm.future_log_start),
                 TemplateLink("log", pm.monthly_start),
                 TemplateLink("log", pm.weekly_start),
                 TemplateLink("log", pm.daily_start)>>
          ELSE <<>>)

\* generate_future_log
generate_future_log(pm) == IndexLink(pm.main_index)

\* generate_monthly_timeline with a link for 31 days in every month
generate_monthly_timeline_31_days(cal, pm, month_idx) ==
    IndexLink(pm.main_index)
    \o [d \in 1..31 |->
           TemplateLink("day", daily_page(pm, day_of_year(cal, month_idx, d), 0))]

\* generate_monthly_timeline
generate_monthly_timeline(cal, pm, month_idx) ==
    IndexLink(pm.main_index)
    \o [d \in 1..cal.months[month_idx + 1].days |->
           TemplateLink("day", daily_page(pm, day_of_year(cal, month_idx, d), 0))]

\* generate_monthly_action_plan
generate_monthly_action_plan(pm) == IndexLink(pm.main_index)

\* _draw_clickable_week_date_range without the clipping to the year
draw_clickable_week_date_range_unclipped(cal, pm, week_num) ==
    LET r == week_date_range(cal, week_num)
    IN  <<TemplateLink("start",
              daily_page(pm, day_of_year(cal, r[1].month - 1, r[1].day), 0)),
          TemplateLink("end",
              daily_page(pm, day_of_year(cal, r[2].month - 1, r[2].day), 0))>>

\* _draw_clickable_week_date_range
draw_clickable_week_date_range(cal, pm, week_num) ==
    LET r == week_date_range(cal, week_num)
        start_date == IF r[1].year < cal.year THEN Date(cal.year, 1, 1) ELSE r[1]
        end_date == IF r[2].year > cal.year THEN Date(cal.year, 12, 31) ELSE r[2]
    IN  <<TemplateLink("start",
              daily_page(pm, day_of_year(cal, start_date.month - 1, start_date.day), 0)),
          TemplateLink("end",
              daily_page(pm, day_of_year(cal, end_date.month - 1, end_date.day), 0))>>

\* generate_weekly_action_plan and generate_weekly_reflection
generate_weekly(cal, pm, week_idx) ==
    IndexLink(pm.main_index) \o draw_clickable_week_date_range(cal, pm, week_idx + 1)

\* generate_daily_log
generate_daily_log(cal, pm, month_idx, day) ==
    LET monthly_page == month_timeline(pm, month_idx)
        week_num == week_of_date(cal, month_idx, day)
    IN  IndexLink(pm.year_index)
        \o <<TemplateLink("month", monthly_page)>>
        \o (IF is_last_day_of_month(cal, month_idx, day)
              THEN <<TemplateLink("month reflection", monthly_page)>> ELSE <<>>)
        \o <<TemplateLink("week", weekly_action(pm, week_num - 1))>>
        \o (IF is_last_day_of_week(cal, month_idx, day)
              THEN <<TemplateLink("week reflection",
                                  weekly_reflection(pm, week_num - 1))>>
              ELSE <<>>)

\* generate_daily_log_continuation
generate_daily_log_continuation(cal, pm, month_idx, day) ==
    IndexLink(pm.year_index)
    \o <<TemplateLink("month", month_timeline(pm, month_idx)),
         TemplateLink("week",
                      weekly_action(pm, week_of_date(cal, month_idx, day) - 1))>>

\* generate_collection_page
generate_collection_page(index_page_idx) == IndexLink(index_page_idx)

\* generator.py lines 109-113: the index page handed to the template of
\* collection collection_idx
index_page(s, pm, collection_idx) ==
    IF collection_idx < s.num_collections_per_index
      THEN pm.collection_index_c
      ELSE pm.collection_index_d

\* the ledger after a template on page_idx has recorded `recorded`
Ledger(page_idx, recorded) ==
    [k \in 1..Len(recorded) |->
        DeferredLink(k, page_idx, <<0, 0, 10, 10>>, recorded[k].dest)]

---------------------------------------------------------------------------
(* Templates: generate() up to the PageContext, then one of the template   *)
(* calls generate() makes (lines 73-116), with the arguments generate()    *)
(* hands it, on a ledger that is still empty, then apply. generate()'s     *)
(* ledger is these ledgers one after the other in call order; apply takes  *)
(* each link on its own (line 29).                                         *)

\* years range over DefaultYear-TemplateYearSpan..DefaultYear+1
TemplateYearSpan == 7
\* num_collection_indexes ranges over -1..MaxIndexes
MaxIndexes == 3

TemplateYears == (DefaultYear - TemplateYearSpan)..(DefaultYear + 1)

\* the Settings values: the defaults with at most one field changed
TemplateSettings ==
    { [DefaultSettings EXCEPT !.year = v] : v \in TemplateYears }
    \cup { [DefaultSettings EXCEPT !.pages_per_day = v] :
             v \in Strides(DefaultPagesPerDay) }
    \cup { [DefaultSettings EXCEPT !.pages_per_collection = v] :
             v \in Strides(DefaultPagesPerCollection) }
    \cup { [DefaultSettings EXCEPT !.num_guide_pages = v] :
             v \in Counts(DefaultGuidePages) }
    \cup { [DefaultSettings EXCEPT !.num_future_log_pages = v] :
             v \in Counts(DefaultFutureLogPages) }
    \cup { [DefaultSettings EXCEPT !.num_collections_per_index = v] :
             v \in Counts(DefaultCollectionsPerIndex) }
    \cup { [DefaultSettings EXCEPT !.num_collection_indexes = v] :
             v \in -1..MaxIndexes }

\* the page indices of all template calls of generate(), in call order
CallOrder(s, cal, pm) ==
    FrontPages(pm) \o GuidePages(pm) \o FutureLogPages(s, pm) \o MonthPages(pm)
        \o WeekPages(cal, pm) \o DayPages(s, cal, pm) \o CollectionPages(s, pm)

\* the position in CallOrder of the first call of a section
GuideFirst == 6
FutureLogFirst == 12
MonthsFirst(s) == FutureLogFirst + RangeLen(s.num_future_log_pages)
WeeksFirst(s) == MonthsFirst(s) + 24
DaysFirst(s, cal) == WeeksFirst(s) + 2 * RangeLen(cal.weeks_in_year)
CollectionsFirst(s, cal) ==
    DaysFirst(s, cal) + cal.total_days * RangeLen(s.pages_per_day)

\* the position of the first template call that raises (one past the last
\* call when none does): IndexError at doc[page_idx] for a page outside the
\* document, ZeroDivisionError in the collection index C
FirstRaise(s, cal, pm, page_count) ==
    LET n == Reached(CallOrder(s, cal, pm), page_count)
    IN  IF collection_index_raises(s) /\ n >= 4 THEN 4 ELSE n + 1

\* FirstRaise of generate() for each Settings value: the calendar, the page
\* map and the page count are functions of the Settings value
first_raise ==
    [s \in TemplateSettings |->
        LET cal == for_year(s.year)
            pm == build_page_map(s, cal)
        IN  FirstRaise(s, cal, pm, RangeLen(pm.total_pages))]

InitTemplates ==
    /\ pc = "start"
    /\ settings \in TemplateSettings
    /\ font_files = FontPaths
    /\ calendar = NoCalendar
    /\ page_map = NoPageMap
    /\ page_counts = NoPageCounts
    /\ doc_pages = 0
    /\ doc_links = <<>>
    /\ links = <<>>
    /\ last = NoCall
    /\ reports = <<>>
    /\ apply_log = <<>>
    /\ report = NoReport
    /\ query = NoQuery
    /\ drawn = <<>>
    /\ font_manager = NewFontManager
    /\ page_fonts = {}

\* the call at position `position` of generate(): template `name` on
\* page_idx with the further arguments args; it records `recorded`, unless
\* it raises at doc[page_idx] (its first statement), and `raises` tells
\* whether it raises later. generate() makes the call when no earlier call
\* has raised.
RunTemplate(position, name, page_idx, args, recorded, raises) ==
    /\ pc = "context"
    /\ position <= first_raise[settings]
    /\ LET loaded == PageInDocument(page_idx, doc_pages)
           ledger == IF loaded THEN Ledger(page_idx, recorded) ELSE <<>>
       IN  /\ links' = ledger
           /\ drawn' = IF loaded THEN <<page_idx>> ELSE <<>>
           /\ pc' = IF loaded /\ ~raises THEN "template" ELSE "raised"
           /\ query' = [op |-> name, args |-> <<page_idx>> \o args,
                        result |-> IF loaded THEN recorded ELSE <<>>]
           /\ last' = IF ledger = <<>> THEN NoCall
                      ELSE [op |-> "add", page_idx |-> page_idx,
                            rect |-> ledger[Len(ledger)].rect,
                            dest_page_idx |-> ledger[Len(ledger)].dest_page_idx,
                            raised |-> FALSE, inserted |-> <<>>, invalid |-> <<>>]
    /\ UNCHANGED <<settings, calendar, page_map, page_counts, doc_pages,
                   doc_links, reports, apply_log, report, font_files,
                   font_manager, page_fonts>>

\* line 73: generate_cover records no link
TemplateCover ==
    RunTemplate(1, "generate_cover", page_map.cover, <<>>, <<>>, FALSE)

\* line 74
TemplateMainIndex ==
    RunTemplate(2, "generate_main_index", page_map.main_index, <<>>,
                generate_main_index(calendar, page_map), FALSE)

\* line 75
TemplateYearIndex ==
    RunTemplate(3, "generate_year_index", page_map.year_index, <<>>,
                generate_year_index(calendar, page_map), FALSE)

\* lines 77-78
TemplateCollectionIndex(letter) ==
    RunTemplate(IF letter = "C" THEN 4 ELSE 5, "generate_collection_index",
                IF letter = "C" THEN page_map.collection_index_c
                                ELSE page_map.collection_index_d,
                <<letter>>,
                generate_collection_index(settings, page_map, letter),
                collection_index_raises(settings))

\* lines 80-85: the k-th guide template, k in 0..5
TemplateGuide(k) ==
    RunTemplate(GuideFirst + k, "generate_guide", page_map.guide_start + k,
                <<k>>, generate_guide(page_map, k), FALSE)

\* lines 87-88
TemplateFutureLog(quarter) ==
    RunTemplate(FutureLogFirst + quarter, "generate_future_log",
                page_map.future_log_start + quarter, <<quarter + 1>>,
                generate_future_log(page_map), FALSE)

\* line 91
TemplateMonthlyTimeline(month_idx) ==
    RunTemplate(MonthsFirst(settings) + 2 * month_idx,
                "generate_monthly_timeline",
                month_timeline(page_map, month_idx), <<month_idx>>,
                generate_monthly_timeline(calendar, page_map, month_idx), FALSE)

\* line 92
TemplateMonthlyActionPlan(month_idx) ==
    RunTemplate(MonthsFirst(settings) + 2 * month_idx + 1,
                "generate_monthly_action_plan",
                month_action_plan(page_map, month_idx), <<month_idx>>,
                generate_monthly_action_plan(page_map), FALSE)

\* line 95
TemplateWeeklyActionPlan(week_idx) ==
    RunTemplate(WeeksFirst(settings) + 2 * week_idx,
                "generate_weekly_action_plan",
                weekly_action(page_map, week_idx), <<week_idx>>,
                generate_weekly(calendar, page_map, week_idx), FALSE)

\* line 96
TemplateWeeklyReflection(week_idx) ==
    RunTemplate(WeeksFirst(settings) + 2 * week_idx + 1,
                "generate_weekly_reflection",
                weekly_reflection(page_map, week_idx), <<week_idx>>,
                generate_weekly(calendar, page_map, week_idx), FALSE)

\* lines 98-106: the daily log on page_in_day 0, the continuation on the
\* further pages of the day
TemplateDaily(month_idx, day, page_in_day) ==
    LET doy == day_of_year(calendar, month_idx, day)
    IN  RunTemplate(DaysFirst(settings, calendar)
                        + doy * RangeLen(settings.pages_per_day) + page_in_day,
                    IF page_in_day = 0 THEN "generate_daily_log"
                                       ELSE "generate_daily_log_continuation",
                    daily_page(page_map, doy, page_in_day), <<month_idx, day>>,
                    IF page_in_day = 0
                      THEN generate_daily_log(calendar, page_map, month_idx, day)
                      ELSE generate_daily_log_continuation(calendar, page_map,
                                                           month_idx, day),
                    FALSE)

\* lines 108-116
TemplateCollectionPage(collection_idx) ==
    RunTemplate(CollectionsFirst(settings, calendar) + collection_idx,
                "generate_collection_page",
                collection_page(page_map, collection_idx),
                <<index_page(settings, page_map, collection_idx)>>,
                generate_collection_page(
                    index_page(settings, page_map, collection_idx)),
                FALSE)

\* apply's loop over the whole ledger without recursion, for ledgers of
\* hundreds of links; the result of ApplyLoop(ls, 1, total_pages, <<>>, <<>>).
\* The loop ends at the first link with a valid destination whose source
\* page is outside the document (doc[link.page_idx] raises); the links
\* before it with a valid destination are inserted, the others collected.
ApplyWalk(ls, total_pages) ==
    LET raising == { i \in 1..Len(ls) :
                       /\ DestValid(ls[i], total_pages)
                       /\ ~PageInDocument(ls[i].page_idx, total_pages) }
        walked == IF raising = {} THEN ls
                  ELSE SubSeq(ls, 1, (CHOOSE i \in raising :
                                         \A j \in raising : i <= j) - 1)
        valid == SelectSeq(walked, LAMBDA link : DestValid(link, total_pages))
    IN  [raised |-> raising # {},
         inserted |-> [k \in 1..Len(valid) |->
                          LinkAnnot(LoadPage(valid[k].page_idx, total_pages), valid[k])],
         invalid |-> IF raising # {} THEN <<>>
                     ELSE SelectSeq(walked,
                                    LAMBDA link : ~DestValid(link, total_pages))]

\* line 118: links.apply(doc) on the ledger the template has filled
ApplyRecorded ==
    /\ pc = "template"
    /\ LET r == ApplyWalk(links, doc_pages)
       IN  /\ doc_links' = doc_links \o r.inserted
           /\ reports' = reports \o r.invalid
           /\ last' = [op |-> "apply", page_idx |-> 0, rect |-> <<>>,
                       dest_page_idx |-> 0, raised |-> r.raised,
                       inserted |-> r.inserted, invalid |-> r.invalid]
           /\ pc' = IF r.raised THEN "raised" ELSE "applied"
    /\ apply_log' = Append(apply_log, Len(links))
    /\ UNCHANGED <<settings, calendar, page_map, page_counts, doc_pages,
                   links, vrVars>>

NextTemplates ==
    \/ BuildCalendar /\ UNCHANGED <<lmVars, vrVars>>
    \/ BuildPageMap /\ UNCHANGED <<lmVars, vrVars>>
    \/ NewPages
    \/ NewContext
    \/ TemplateCover
    \/ TemplateMainIndex
    \/ TemplateYearIndex
    \/ \E letter \in { "C", "D" } : TemplateCollectionIndex(letter)
    \/ \E k \in 0..5 : TemplateGuide(k)
    \/ \E quarter \in 0..(settings.num_future_log_pages - 1) :
          TemplateFutureLog(quarter)
    \/ \E month_idx \in 0..11 : TemplateMonthlyTimeline(month_idx)
    \/ \E month_idx \in 0..11 : TemplateMonthlyActionPlan(month_idx)
    \/ \E week_idx \in 0..(calendar.weeks_in_year - 1) :
          TemplateWeeklyActionPlan(week_idx)
    \/ \E week_idx \in 0..(calendar.weeks_in_year - 1) :
          TemplateWeeklyReflection(week_idx)
    \/ /\ pc = "context"
       /\ \E d \in ValidDays(calendar),
             page_in_day \in 0..(settings.pages_per_day - 1) :
             TemplateDaily(d[1], d[2], page_in_day)
    \/ \E collection_idx \in
             0..(settings.num_collections_per_index
                    * settings.num_collection_indexes - 1) :
          TemplateCollectionPage(collection_idx)
    \/ ApplyRecorded

SpecTemplates == InitTemplates /\ [][NextTemplates]_vars

---------------------------------------------------------------------------
(* Templates: the claims *)

\* a template has run (and apply after it, or not yet)
Ran(names) == pc \in { "template", "applied" } /\ query.op \in names

DailyTemplates == { "generate_daily_log", "generate_daily_log_continuation" }

\* the positions in the ledger of the links recorded at the sites `sites`
At(sites) == { k \in 1..Len(links) : query.result[k].site \in sites }

\* the day a daily template was called for
DayOf(q) == Date(calendar.year, q.args[2] + 1, q.args[3])

\* C22: for every year and every day of the year, each week link recorded
\* by generate_daily_log and generate_daily_log_continuation (the 'W<n>'
\* breadcrumb and, on Sundays, the 'Reflection' link) has its destination
\* inside the weekly section [weekly_start, daily_start).
C22_WeekLinksInWeeklySection ==
    Ran(DailyTemplates) =>
        \A k \in At({ "week", "week reflection" }) :
            /\ page_map.weekly_start <= links[k].dest_page_idx
            /\ links[k].dest_page_idx < page_map.daily_start

\* C23: for every year and every day D of the year, the week page linked
\* from D's daily pages is the page of a week w, 1 <= w <= weeks_in_year,
\* whose week_date_range(w) contains D.
C23_DayLinksToItsWeek ==
    Ran(DailyTemplates) =>
        \A k \in At({ "week" }) :
            \E w \in 1..calendar.weeks_in_year :
                /\ links[k].dest_page_idx = weekly_action(page_map, w - 1)
                /\ ToOrdinal(week_date_range(calendar, w)[1]) <= ToOrdinal(DayOf(query))
                /\ ToOrdinal(DayOf(query)) <= ToOrdinal(week_date_range(calendar, w)[2])


\* the default Settings, for any year
DefaultsOfYear == settings = [DefaultSettings EXCEPT !.year = settings.year]

\* C24: under the default Settings and for every year, every link recorded
\* by a page template has its source page and its destination page in
\* [0, total_pages), no template raises, and apply inserts every recorded
\* link and returns an empty invalid list.
C24_DefaultLinksAllValid ==
    DefaultsOfYear =>
        /\ pc # "raised"
        /\ \A k \in 1..Len(links) :
              /\ 0 <= links[k].page_idx
              /\ links[k].page_idx < page_map.total_pages
              /\ 0 <= links[k].dest_page_idx
              /\ links[k].dest_page_idx < page_map.total_pages
        /\ pc = "applied" =>
              /\ last.op = "apply"
              /\ ~last.raised
              /\ last.invalid = <<>>
              /\ reports = <<>>
              /\ Len(last.inserted) = Len(links)
              /\ \A k \in 1..Len(links) : doc_links[k].to = links[k].dest_page_idx

\* the year index of 2024, a leap year: 366 day links and the 'Index' link,
\* all inserted by apply
C24_Witness ==
    /\ settings = [DefaultSettings EXCEPT !.year = 2024]
    /\ pc = "applied"
    /\ query.op = "generate_year_index"
    /\ Len(links) = 367
    /\ Len(doc_links) = 367
    /\ last.invalid = <<>>


\* C25: for every Settings value, the guide pages generate() draws
\* (guide_start .. guide_start + 5) and the guide destinations listed on
\* the main index all lie inside the guide section the page map reserves,
\* [guide_start, future_log_start).
C25_GuidePagesInGuideSection ==
    /\ Ran({ "generate_guide" }) =>
          /\ page_map.guide_start <= drawn[1]
          /\ drawn[1] < page_map.future_log_start
    /\ Ran({ "generate_main_index" }) =>
          \A k \in At({ "guide", "guide arrow" }) :
              /\ page_map.guide_start <= links[k].dest_page_idx
              /\ links[k].dest_page_idx < page_map.future_log_start


---------------------------------------------------------------------------
(* generate(): every page drawn *)

\* the Settings values of C26
FullyDrawnSettings(s) ==
    /\ s.num_guide_pages = 6
    /\ s.num_collection_indexes = 2
    /\ s.num_future_log_pages >= 0
    /\ s.num_collections_per_index >= 1
    /\ s.pages_per_day >= 1
    /\ s.pages_per_collection >= 1

\* C26: for every such Settings value and every year, generate() draws a
\* page template on every page index in [0, total_pages) exactly once: no
\* reserved page is left without content, no page index gets two templates.
C26_EveryPageDrawnOnce ==
    (FullyDrawnSettings(settings) /\ pc \in { "collections", "applied", "done" }) =>
        /\ Len(drawn) = page_map.total_pages
        /\ { drawn[k] : k \in 1..Len(drawn) } = 0..(page_map.total_pages - 1)


---------------------------------------------------------------------------
(* Templates: weeks, collections, days (claims) *)

\* the lists of a list of lists one after the other
RECURSIVE Concat(_)
Concat(lists) ==
    IF lists = <<>> THEN <<>> ELSE Head(lists) \o Concat(Tail(lists))

\* C27: for every year, compute_weeks_by_month returns 12 lists that
\* partition 1..weeks_in_year: each week number is in exactly one list, the
\* list of week_primary_month(w), each list is increasing, and the lists in
\* month order make 1, 2, .., weeks_in_year; the main index records exactly
\* one link per week, to weekly_action(w - 1), and no other week link.
C27_WeeksByMonthPartition ==
    Ran({ "generate_main_index" }) =>
        LET weeks_by_month == compute_weeks_by_month(calendar) \o <<>>
            n == calendar.weeks_in_year
        IN  /\ Len(weeks_by_month) = 12
            /\ \A w \in 1..n : \A m \in 1..12 :
                  Cardinality({ i \in 1..Len(weeks_by_month[m]) :
                                  weeks_by_month[m][i] = w })
                      = (IF m - 1 = week_primary_month(calendar, w) THEN 1 ELSE 0)
            /\ \A m \in 1..12 : \A i, j \in 1..Len(weeks_by_month[m]) :
                  i < j => weeks_by_month[m][i] < weeks_by_month[m][j]
            /\ Concat(weeks_by_month) = [w \in 1..n |-> w]
            /\ Cardinality(At({ "week" })) = n
            /\ \A w \in 1..n :
                  Cardinality({ k \in At({ "week" }) :
                                  links[k].dest_page_idx
                                      = weekly_action(page_map, w - 1) }) = 1

\* the main index of 2026, a year of 53 weeks: 53 week links, the weeks
\* 1..5 with January and 49..53 with December
C27_Witness ==
    /\ Ran({ "generate_main_index" })
    /\ settings = DefaultSettings
    /\ calendar.weeks_in_year = 53
    /\ Cardinality(At({ "week" })) = 53
    /\ compute_weeks_by_month(calendar)[1] = <<1, 2, 3, 4, 5>>
    /\ compute_weeks_by_month(calendar)[12] = <<49, 50, 51, 52, 53>>


\* the Settings values of C28
CollectionSettings(s) ==
    /\ s.num_collections_per_index >= 1
    /\ s.num_collection_indexes >= 1
    /\ s.pages_per_collection >= 1

\* the links of the collection index `letter` that target `page`
IndexLinksTo(letter, page) ==
    LET recorded == generate_collection_index(settings, page_map, letter)
    IN  { k \in 1..Len(recorded) :
            recorded[k].site = "collection" /\ recorded[k].dest = page }

\* C28: for every Settings value with at least one collection per index,
\* one collection index and one page per collection, every collection page
\* the page map reserves is the destination of exactly one link on a
\* collection index page (C or D), every link on a collection index page
\* targets such a page inside [collection_start, total_pages), and the
\* 'Index' back link of the collection page targets the index page that
\* links to it.
C28_CollectionIndexLinks ==
    CollectionSettings(settings) =>
        /\ Ran({ "generate_collection_index" }) =>
              \A k \in At({ "collection" }) :
                  /\ page_map.collection_start <= links[k].dest_page_idx
                  /\ links[k].dest_page_idx < page_map.total_pages
                  /\ \E i \in 0..(settings.num_collections_per_index
                                    * settings.num_collection_indexes - 1) :
                        links[k].dest_page_idx = collection_page(page_map, i)
        /\ Ran({ "generate_collection_page" }) =>
              /\ Cardinality(IndexLinksTo("C", query.args[1]))
                    + Cardinality(IndexLinksTo("D", query.args[1])) = 1
              /\ \/ /\ links[1].dest_page_idx = page_map.collection_index_c
                    /\ IndexLinksTo("C", query.args[1]) # {}
                 \/ /\ links[1].dest_page_idx = page_map.collection_index_d
                    /\ IndexLinksTo("D", query.args[1]) # {}


WeeklyTemplates == { "generate_weekly_action_plan", "generate_weekly_reflection" }

Max(a, b) == IF a >= b THEN a ELSE b
Min(a, b) == IF a <= b THEN a ELSE b

---------------------------------------------------------------------------
(* Templates: month and day pages (claims)                                 *)

\* the days since January 1 of the first day of month month_idx (0-based),
\* computed from the ordinals of the two dates
FirstDayOfMonth(cal, month_idx) ==
    Ordinal(cal.year, month_idx + 1, 1) - Ordinal(cal.year, 1, 1)

=============================================================================
